---- MODULE Spec2Model ----
(***************************************************************************)
(* State-machine model of the structured logger of node-host               *)
(* (src/host/logging.ts): the EnrichingLogger facade, the LogBuffer with   *)
(* its deferred mode probe, idle timer and promise-chained flushes, and    *)
(* the log transport it delivers to.                                       *)
(***************************************************************************)
EXTENDS Integers, Sequences, FiniteSets, TLC

(***************************************************************************)
(* Bounds of the model.                                                    *)
(***************************************************************************)
MaxCalls == 3
MaxFlush == 2          \* explicit flush() calls per behaviour
MaxReject == 1         \* rejected deliveries per behaviour
MaxBurst == 9          \* log calls per behaviour (SpecBatch)
MaxLong == 3           \* log calls with a long message per behaviour (SpecBatch)
MaxFacadeCalls == 3    \* log calls per behaviour (SpecLevel)
MaxEnrichCalls == 2    \* log calls per behaviour (SpecEnrich)
MaxLoggers == 3        \* logger facades per behaviour (SpecEnrich)
MaxRequests == 2        \* requests a served site answers
MaxErrorCalls == 2     \* log calls with an error per behaviour (SpecError)
MaxRejections == 3     \* unhandledRejection events the process emits (SpecQuiesce)

(***************************************************************************)
(* Program constants.                                                      *)
(***************************************************************************)
MaxQueuedEntries == 8      \* logging.ts:92   this.#entries.length > 8
MaxQueuedSize == 64000     \* logging.ts:92   this.#size > 64_000
UrgentLevel == 2           \* logging.ts:92   numericLogLevel < 2
DefaultLevel == 5          \* logging.ts:14   no minimumLogLevel: 5

(***************************************************************************)
(* JavaScript values.  An optional object is <<>> (undefined) or <<o>>,    *)
(* o a function from property names to strings.                            *)
(***************************************************************************)
Undefined == <<>>
Some(o) == <<o>>
EmptyObj == [k \in {} |-> ""]

\* {...a}: the own enumerable properties of a; spreading undefined adds none
Spread(a) == IF a = Undefined THEN EmptyObj ELSE a[1]

\* {...a, ...b} of two objects: a later key overwrites an earlier one
Assign(a, b) ==
    [k \in (DOMAIN a) \cup (DOMAIN b) |-> IF k \in DOMAIN b THEN b[k] ELSE a[k]]

\* number of UTF-16 code units of the strings the model uses
Chars(s) ==
    CASE s = "timestamp" -> 9
      [] s = "level" -> 5
      [] s = "message" -> 7
      [] s = "warning" -> 7
      [] s \in {"trace", "debug", "error", "fatal"} -> 5
      [] s = "" -> 0
      [] s = "info" -> 4
      [] s \in {"Error", "stack", "cause", "extra"} -> 5
      [] s \in {"string", "errors"} -> 6
      [] s = "name" -> 4
      [] s = "code" -> 4
      [] s = "AggregateError" -> 14
      [] s \in {"start", "event"} -> 5
      [] s = "end" -> 3
      [] s = "meta" -> 4
      [] s \in {"request", "trigger"} -> 7
      [] s \in {"duration", "response"} -> 8
      [] s \in {"Timer END", "Event END", "TypeError"} -> 9
      [] s \in {"Request END", "Timer BEGIN", "Event BEGIN"} -> 11
      [] s = "Request BEGIN" -> 13
      [] s = "Shallow request" -> 15
      [] s = "Unhandled rejection." -> 20
      [] s = "Measurement of execution time" -> 29
      [] s = "Could not convert exception to error response." -> 46
      [] s \in {"200", "204", "302", "304", "404", "500"} -> 3
      [] s = "t" -> 28          \* a highPrecisionISODate() string
      [] s = "M" -> 31928       \* a long message: its info line has 32000 chars
      [] s = "H" -> 63929       \* a huge message: its info line has 64001 chars
      [] OTHER -> 1             \* "m", field names and field values

RECURSIVE SumChars(_, _)
SumChars(line, keys) ==
    IF keys = {} THEN 0
    ELSE LET k == CHOOSE x \in keys : TRUE
         IN  Chars(k) + Chars(line[k]) + 6 + SumChars(line, keys \ {k})

\* JSON.stringify(line).length: {"k":"v","k":"v"}
JsonLength(line) == 1 + SumChars(line, DOMAIN line)

(***************************************************************************)
(* The values a log call is given as `error`, and the values handlers      *)
(* throw: undefined, null, strings, numbers and references to the objects  *)
(* of a heap.  An object has a class (what instanceof sees), the name its  *)
(* prototype gives it, and its own properties in insertion order, each     *)
(* enumerable or not.                                                      *)
(***************************************************************************)
JsUndefined == [t |-> "undefined", s |-> "", n |-> 0, id |-> 0]
JsNull == [t |-> "null", s |-> "", n |-> 0, id |-> 0]
JsString(s) == [t |-> "string", s |-> s, n |-> 0, id |-> 0]
JsNumber(n) == [t |-> "number", s |-> "", n |-> n, id |-> 0]
JsRef(id) == [t |-> "object", s |-> "", n |-> 0, id |-> id]

Prop(key, val, enum) == [key |-> key, val |-> val, enum |-> enum]

\* new Error(message): message and stack are own, not enumerable; name comes
\* from the prototype
NewError(proto, message, more) ==
    [class |-> "Error", proto |-> proto,
     props |-> <<Prop("message", JsString(message), FALSE),
                 Prop("stack", JsString("s"), FALSE)>> \o more]

\* an object literal
NewObject(props) == [class |-> "Object", proto |-> "", props |-> props]

\* Buffer.from(bytes): what Buffer.isBuffer sees, with the bytes it holds
NewBuffer(bytes) ==
    [class |-> "Buffer", proto |-> "", props |-> <<Prop("bytes", JsString(bytes), FALSE)>>]

\* an array literal: its elements are enumerable, its length is not
NewArray(elements) ==
    [class |-> "Array", proto |-> "",
     props |-> [i \in DOMAIN elements |-> Prop(ToString(i - 1), elements[i], TRUE)]]

HasOwn(o, key) == \E i \in DOMAIN o.props : o.props[i].key = key

\* o[key], looked up on the object and then on its prototype
Get(o, key) ==
    IF HasOwn(o, key)
    THEN o.props[CHOOSE i \in DOMAIN o.props : o.props[i].key = key].val
    ELSE IF key = "name" /\ o.proto # "" THEN JsString(o.proto)
    ELSE JsUndefined

\* v.key of any value: undefined for a primitive
Member(heap, v, key) == IF v.t = "object" THEN Get(heap[v.id], key) ELSE JsUndefined

\* the own enumerable properties, which a spread copies
OwnEnumerable(o) == SelectSeq(o.props, LAMBDA p : p.enum)

\* { ...props, [key]: val }: a key already there keeps its place
Put(props, key, val) ==
    IF \E i \in DOMAIN props : props[i].key = key
    THEN [i \in DOMAIN props |->
             IF props[i].key = key THEN Prop(key, val, TRUE) ELSE props[i]]
    ELSE Append(props, Prop(key, val, TRUE))

RECURSIVE PutAll(_, _)
\* { ...props, ...more }
PutAll(props, more) ==
    IF more = <<>> THEN props
    ELSE PutAll(Put(props, Head(more).key, Head(more).val), Tail(more))

\* String(v) of a primitive
ToStr(v) ==
    CASE v.t = "string" -> v.s
      [] v.t = "number" -> ToString(v.n)
      [] OTHER -> v.t

(***************************************************************************)
(* errorAsJson (logging.ts:267-289): the object logged as `error`, as the  *)
(* list of its properties; <<>> when the line has no error.                *)
(***************************************************************************)
errorAsJson(heap, error) ==
    IF error.t \in {"undefined", "null"} THEN Undefined
    ELSE IF error.t = "object" /\ heap[error.id].class = "Error"
    THEN Some(PutAll(<<Prop("message", Get(heap[error.id], "message"), TRUE),
                       Prop("name", Get(heap[error.id], "name"), TRUE),
                       Prop("stack", Get(heap[error.id], "stack"), TRUE)>>,
                     OwnEnumerable(heap[error.id])))
    ELSE IF error.t = "object"
    THEN Some(PutAll(<<>>, OwnEnumerable(heap[error.id])))
    ELSE Some(<<Prop("message", JsString(ToStr(error)), TRUE),
                Prop("name", JsString(error.t), TRUE)>>)

(***************************************************************************)
(* JSON.stringify.  A document node is a string, a number, null, an object *)
(* or an array; serializing throws a TypeError when a value is reached     *)
(* that is one of its own ancestors.                                       *)
(***************************************************************************)
Node(t, s, kv) == [t |-> t, s |-> s, kv |-> kv]

Done(node) == [thrown |-> FALSE, closes |-> "", node |-> node]

\* TypeError: Converting circular structure to JSON ... property 'key' closes
\* the circle
Circular(key) == [thrown |-> TRUE, closes |-> key, node |-> Node("undefined", "", <<>>)]

RECURSIVE SerializeValue(_, _, _, _)
RECURSIVE SerializeProps(_, _, _, _, _)

\* the value v found under `key`, below the objects of `stack`
SerializeValue(heap, v, key, stack) ==
    CASE v.t = "undefined" -> Done(Node("undefined", "", <<>>))
      [] v.t = "null" -> Done(Node("null", "", <<>>))
      [] v.t = "string" -> Done(Node("string", v.s, <<>>))
      [] v.t = "number" -> Done(Node("number", ToString(v.n), <<>>))
      [] v.t = "object" ->
           IF v.id \in stack THEN Circular(key)
           ELSE LET o == heap[v.id]
                    r == SerializeProps(heap, OwnEnumerable(o), stack \cup {v.id},
                                        o.class = "Array", <<>>)
                IN  IF r.thrown THEN r
                    ELSE Done(Node(IF o.class = "Array" THEN "array" ELSE "object",
                                   "", r.node.kv))

\* the properties one after the other: an undefined value is left out of an
\* object and is null in an array
SerializeProps(heap, props, stack, inArray, acc) ==
    IF props = <<>> THEN Done(Node("object", "", acc))
    ELSE LET p == Head(props)
             r == SerializeValue(heap, p.val, p.key, stack)
         IN  IF r.thrown THEN r
             ELSE SerializeProps(heap, Tail(props), stack, inArray,
                    IF r.node.t = "undefined"
                    THEN IF inArray THEN Append(acc, <<p.key, Node("null", "", <<>>)>>)
                         ELSE acc
                    ELSE Append(acc, <<p.key, r.node>>))

\* JSON.stringify of the object errorAsJson returned, itself a fresh object
StringifyError(heap, error) ==
    SerializeProps(heap, errorAsJson(heap, error)[1], {}, FALSE, <<>>)

RECURSIVE NodeLength(_)
RECURSIVE MembersLength(_, _)

\* the number of characters of the text of a document node
NodeLength(node) ==
    CASE node.t = "string" -> Chars(node.s) + 2
      [] node.t = "number" -> Chars(node.s)
      [] node.t = "null" -> 4
      [] node.t = "array" -> 2 + MembersLength(node.kv, FALSE)
      [] node.t = "object" -> 2 + MembersLength(node.kv, TRUE)

\* the members between the brackets, with their commas
MembersLength(kv, keyed) ==
    IF kv = <<>> THEN 0
    ELSE (IF keyed THEN Chars(Head(kv)[1]) + 3 ELSE 0) + NodeLength(Head(kv)[2])
         + (IF Len(kv) > 1 THEN 1 ELSE 0) + MembersLength(Tail(kv), keyed)

(***************************************************************************)
(* The error values the log calls of the model are given: those of         *)
(* src/test/logging.ts and their variants, each with the heap it lives in. *)
(***************************************************************************)
ErrorNames ==
    {"string", "error", "list", "aggregate", "cause", "assignedCause",
     "cyclic", "cyclicCause", "selfCause"}

ErrorValue(name) ==
    CASE name = "none" -> [heap |-> <<>>, root |-> JsUndefined]
      \* throw 'error'
      [] name = "string" -> [heap |-> <<>>, root |-> JsString("x")]
      \* new Error('One error')
      [] name = "error" ->
           [heap |-> <<NewError("Error", "x", <<>>)>>, root |-> JsRef(1)]
      \* [new Error('One error'), new Error('Other error')]
      [] name = "list" ->
           [heap |-> <<NewArray(<<JsRef(2), JsRef(3)>>),
                       NewError("Error", "x", <<>>),
                       NewError("Error", "y", <<>>)>>,
            root |-> JsRef(1)]
      \* the AggregateError of Promise.any: errors is own, not enumerable
      [] name = "aggregate" ->
           [heap |-> <<NewError("AggregateError", "z",
                                <<Prop("errors", JsRef(2), FALSE)>>),
                       NewArray(<<JsRef(3), JsRef(4)>>),
                       NewError("Error", "x", <<>>),
                       NewError("Error", "y", <<>>)>>,
            root |-> JsRef(1)]
      \* new Error('..', { cause }): cause is own, not enumerable; the cause
      \* is a system error with an enumerable code
      [] name = "cause" ->
           [heap |-> <<NewError("Error", "x", <<Prop("cause", JsRef(2), FALSE)>>),
                       NewError("Error", "y", <<Prop("code", JsString("c"), TRUE)>>)>>,
            root |-> JsRef(1)]
      \* Object.assign(new Error('..'), { cause }): cause is enumerable
      [] name = "assignedCause" ->
           [heap |-> <<NewError("Error", "x", <<Prop("cause", JsRef(2), TRUE)>>),
                       NewError("Error", "y", <<Prop("code", JsString("c"), TRUE)>>)>>,
            root |-> JsRef(1)]
      \* error.extra = extra, with extra.extra = extra
      [] name = "cyclic" ->
           [heap |-> <<NewError("Error", "x", <<Prop("extra", JsRef(2), TRUE)>>),
                       NewObject(<<Prop("extra", JsRef(2), TRUE)>>)>>,
            root |-> JsRef(1)]
      \* the same error after error.cause = error
      [] name = "cyclicCause" ->
           [heap |-> <<NewError("Error", "x", <<Prop("extra", JsRef(2), TRUE),
                                                Prop("cause", JsRef(1), TRUE)>>),
                       NewObject(<<Prop("extra", JsRef(2), TRUE)>>)>>,
            root |-> JsRef(1)]
      \* an error that is its own cause and has no other cycle
      [] name = "selfCause" ->
           [heap |-> <<NewError("Error", "x", <<Prop("cause", JsRef(1), TRUE)>>)>>,
            root |-> JsRef(1)]
      \* the TypeError the runtime throws (destructuring undefined, a circular
      \* structure)
      [] name = "typeError" ->
           [heap |-> <<NewError("TypeError", "x", <<>>)>>, root |-> JsRef(1)]
      \* Object.assign(new Error('..'), { statusCode: 404 })
      [] name = "status" ->
           [heap |-> <<NewError("Error", "x", <<Prop("statusCode", JsNumber(404), TRUE)>>)>>,
            root |-> JsRef(1)]
      \* { statusCode: 404, body: 'b' }
      [] name = "statusBody" ->
           [heap |-> <<NewObject(<<Prop("statusCode", JsNumber(404), TRUE),
                                   Prop("body", JsString("b"), TRUE)>>)>>,
            root |-> JsRef(1)]
      \* { body: { k: 'b' } }
      [] name = "jsonBody" ->
           [heap |-> <<NewObject(<<Prop("body", JsRef(2), TRUE)>>),
                       NewObject(<<Prop("k", JsString("b"), TRUE)>>)>>,
            root |-> JsRef(1)]
      \* an error with a statusCode and a cyclic property
      [] name = "cyclicStatus" ->
           [heap |-> <<NewError("Error", "x", <<Prop("statusCode", JsNumber(404), TRUE),
                                                Prop("extra", JsRef(2), TRUE)>>),
                       NewObject(<<Prop("extra", JsRef(2), TRUE)>>)>>,
            root |-> JsRef(1)]
      \* { statusCode: 404, body } with a cyclic body
      [] name = "cyclicBody" ->
           [heap |-> <<NewObject(<<Prop("statusCode", JsNumber(404), TRUE),
                                   Prop("body", JsRef(2), TRUE)>>),
                       NewObject(<<Prop("extra", JsRef(2), TRUE)>>)>>,
            root |-> JsRef(1)]

\* the values the handlers of the model throw or reject with
ThrownNames ==
    {"none", "string", "error", "status", "statusBody", "jsonBody", "cyclic",
     "cyclicStatus", "cyclicBody"}

\* what the HTTP handlers of the model return
ResultNames == {"nothing", "text", "body", "json", "notFound", "redirect", "cyclic"}

ResultValue(name) ==
    CASE name = "nothing" -> [heap |-> <<>>, root |-> JsUndefined]
      \* 'b'
      [] name = "text" -> [heap |-> <<>>, root |-> JsString("b")]
      \* { body: 'b' }
      [] name = "body" ->
           [heap |-> <<NewObject(<<Prop("body", JsString("b"), TRUE)>>)>>,
            root |-> JsRef(1)]
      \* { body: { k: 'b' } }
      [] name = "json" ->
           [heap |-> <<NewObject(<<Prop("body", JsRef(2), TRUE)>>),
                       NewObject(<<Prop("k", JsString("b"), TRUE)>>)>>,
            root |-> JsRef(1)]
      \* { status: 404 }
      [] name = "notFound" ->
           [heap |-> <<NewObject(<<Prop("status", JsNumber(404), TRUE)>>)>>,
            root |-> JsRef(1)]
      \* { status: 302, headers: { location: 'l' } }
      [] name = "redirect" ->
           [heap |-> <<NewObject(<<Prop("status", JsNumber(302), TRUE),
                                   Prop("headers", JsRef(2), TRUE)>>),
                       NewObject(<<Prop("location", JsString("l"), TRUE)>>)>>,
            root |-> JsRef(1)]
      \* { body } with a cyclic body
      [] name = "cyclic" ->
           [heap |-> <<NewObject(<<Prop("body", JsRef(2), TRUE)>>),
                       NewObject(<<Prop("extra", JsRef(2), TRUE)>>)>>,
            root |-> JsRef(1)]
      \* ''
      [] name = "empty" -> [heap |-> <<>>, root |-> JsString("")]
      \* { body: '' }
      [] name = "emptyBody" ->
           [heap |-> <<NewObject(<<Prop("body", JsString(""), TRUE)>>)>>,
            root |-> JsRef(1)]
      \* { body: Buffer.from('b') }
      [] name = "binary" ->
           [heap |-> <<NewObject(<<Prop("body", JsRef(2), TRUE)>>), NewBuffer("b")>>,
            root |-> JsRef(1)]
      \* { status: 201, headers: { 'content-type': 'text/html' }, body: 'b' }
      [] name = "typed" ->
           [heap |-> <<NewObject(<<Prop("status", JsNumber(201), TRUE),
                                   Prop("headers", JsRef(2), TRUE),
                                   Prop("body", JsString("b"), TRUE)>>),
                       NewObject(<<Prop("content-type", JsString("text/html"), TRUE)>>)>>,
            root |-> JsRef(1)]
      \* { headers: { etag: 'e' }, body: 'b' }
      [] name = "tagged" ->
           [heap |-> <<NewObject(<<Prop("headers", JsRef(2), TRUE),
                                   Prop("body", JsString("b"), TRUE)>>),
                       NewObject(<<Prop("etag", JsString("e"), TRUE)>>)>>,
            root |-> JsRef(1)]
      \* { body: 'H' }, a body of more than 32768 characters
      [] name = "large" ->
           [heap |-> <<NewObject(<<Prop("body", JsString("H"), TRUE)>>)>>,
            root |-> JsRef(1)]
      \* { headers, body: 'b' }, headers being an object the handler's module
      \* keeps: const headers = {}
      [] name = "shared" ->
           [heap |-> <<NewObject(<<Prop("headers", JsRef(2), TRUE),
                                   Prop("body", JsString("b"), TRUE)>>),
                       NewObject(<<>>)>>,
            root |-> JsRef(1)]
      \* { headers, body: { k: 'b' } } with the same headers object
      [] name = "sharedJson" ->
           [heap |-> <<NewObject(<<Prop("headers", JsRef(2), TRUE),
                                   Prop("body", JsRef(3), TRUE)>>),
                       NewObject(<<>>),
                       NewObject(<<Prop("k", JsString("b"), TRUE)>>)>>,
            root |-> JsRef(1)]

\* the results whose headers are the object the handler's module keeps
SharedNames == {"shared", "sharedJson"}

\* what the handlers of a served site return
ServedNames ==
    {"nothing", "empty", "text", "emptyBody", "json", "binary", "typed", "tagged",
     "large", "shared", "sharedJson"}

(***************************************************************************)
(* The HTTP response (http.ts:8-12): a status, headers, and a body that is *)
(* absent, a string, or the JSON text of a document.                       *)
(***************************************************************************)
Response(status, headers, body) == [status |-> status, headers |-> headers, body |-> body]

\* a string body
Text(str) == Some([json |-> FALSE, doc |-> Node("string", str, <<>>)])

\* the body JSON.stringify(value) gives
Json(doc) == Some([json |-> TRUE, doc |-> doc])

\* a Buffer body, with its bytes
Binary(bytes) == Some([json |-> FALSE, doc |-> Node("buffer", bytes, <<>>)])

\* body.length
BodyLength(body) ==
    IF body[1].json THEN NodeLength(body[1].doc) ELSE Chars(body[1].doc.s)

RECURSIVE NodeText(_)
RECURSIVE MembersText(_, _)

\* the text of a document node
NodeText(node) ==
    CASE node.t = "string" -> "\"" \o node.s \o "\""
      [] node.t = "number" -> node.s
      [] node.t = "null" -> "null"
      [] node.t = "array" -> "[" \o MembersText(node.kv, FALSE) \o "]"
      [] node.t = "object" -> "{" \o MembersText(node.kv, TRUE) \o "}"

\* the members between the brackets, with their commas
MembersText(kv, keyed) ==
    IF kv = <<>> THEN ""
    ELSE (IF keyed THEN "\"" \o Head(kv)[1] \o "\":" ELSE "") \o NodeText(Head(kv)[2])
         \o (IF Len(kv) > 1 THEN "," ELSE "") \o MembersText(Tail(kv), keyed)

\* the bytes of a body: a string or a Buffer as it is, a document as its text
BodyBytes(body) ==
    IF body[1].json THEN NodeText(body[1].doc) ELSE body[1].doc.s

\* hash('sha1', data, 'base64').slice(0, -1): the digest of the bytes, taken
\* as free of collisions
hash(data) == "sha1(" \o data \o ")"

RECURSIVE PropsOf(_)
\* an object of strings as its properties
PropsOf(f) ==
    IF DOMAIN f = {} THEN <<>>
    ELSE LET k == CHOOSE x \in DOMAIN f : TRUE
         IN  <<Prop(k, JsString(f[k]), TRUE)>>
             \o PropsOf([x \in DOMAIN f \ {k} |-> f[x]])

\* a ?? b
Coalesce(a, b) == IF a.t \in {"undefined", "null"} THEN b ELSE a

\* an object of strings, as the function of its own enumerable properties
Strings(heap, v) ==
    IF v.t # "object" THEN EmptyObj
    ELSE LET props == OwnEnumerable(heap[v.id])
         IN  [k \in {props[i].key : i \in DOMAIN props} |->
                 (props[CHOOSE i \in DOMAIN props : props[i].key = k].val).s]

\* withContentType(headers, contentType)
withContentType(heap, headers, contentType) ==
    IF headers.t \in {"undefined", "null"}
    THEN [c \in {"content-type"} |-> contentType]
    ELSE IF "content-type" \in DOMAIN Strings(heap, headers)
    THEN Strings(heap, headers)
    ELSE Assign(Strings(heap, headers), [c \in {"content-type"} |-> contentType])

\* what a conversion gives: a response, or the exception it throws
Converted(response) == [thrown |-> FALSE, response |-> response]
ConversionThrows == [thrown |-> TRUE, response |-> Response(JsUndefined, EmptyObj, Undefined)]

\* resultToResponse(result, withLogBody); the logBody it adds goes to the log
\* enrichment only
resultToResponse(heap, result) ==
    LET body == Member(heap, result, "body")
        status == Coalesce(Member(heap, result, "status"), JsNumber(200))
        headers == Member(heap, result, "headers")
    IN  IF result.t \in {"undefined", "null"} \/ (result.t = "string" /\ result.s = "")
        THEN Converted(Response(JsNumber(204), EmptyObj, Undefined))
        ELSE IF result.t = "string"
        THEN Converted(Response(JsNumber(200), [c \in {"content-type"} |-> "text/plain"],
                                Text(result.s)))
        ELSE IF body.t = "undefined"
        THEN Converted(Response(status,
                                IF headers.t \in {"undefined", "null"} THEN EmptyObj
                                ELSE Strings(heap, headers),
                                Undefined))
        ELSE IF body.t = "string"
        THEN Converted(Response(status, withContentType(heap, headers, "text/plain"),
                                Text(body.s)))
        ELSE IF body.t = "object" /\ heap[body.id].class = "Buffer"
        THEN Converted(Response(status,
                                withContentType(heap, headers, "application/octet-stream"),
                                Binary(Get(heap[body.id], "bytes").s)))
        ELSE LET r == SerializeValue(heap, body, "", {})
             IN  IF r.thrown THEN ConversionThrows
                 ELSE Converted(Response(status,
                                         withContentType(heap, headers, "application/json"),
                                         Json(r.node)))

\* errorToResponse(e): destructuring undefined or null throws, and so does
\* JSON.stringify of a cyclic body
errorToResponse(heap, e) ==
    LET body == Member(heap, e, "body")
        status == Coalesce(Member(heap, e, "statusCode"), JsNumber(500))
    IN  IF e.t \in {"undefined", "null"} THEN ConversionThrows
        ELSE IF body.t = "string"
        THEN Converted(Response(status, [c \in {"content-type"} |-> "text/plain"],
                                Text(body.s)))
        ELSE IF body.t \in {"object", "null"}
        THEN LET r == SerializeValue(heap, body, "", {})
             IN  IF r.thrown THEN ConversionThrows
                 ELSE Converted(Response(status,
                                         [c \in {"content-type"} |-> "application/json"],
                                         Json(r.node)))
        ELSE Converted(Response(status, EmptyObj, Undefined))

\* eTagged(requestHeaders, response): ifNoneMatch is the request's
\* if-none-match header, "" when it has none
eTagged(ifNoneMatch, response) ==
    IF ("etag" \in DOMAIN response.headers /\ response.headers["etag"] # "")
       \/ response.body = Undefined \/ BodyLength(response.body) = 0
    THEN response
    ELSE LET etag == hash(BodyBytes(response.body))
         IN  IF ifNoneMatch = etag
             THEN Response(JsNumber(304),
                           Assign(response.headers, [c \in {"etag"} |-> etag]), Undefined)
             ELSE Response(response.status,
                           Assign(response.headers, [c \in {"etag"} |-> etag]),
                           response.body)

\* compressed(requestHeaders, response): `br` says that the request accepts
\* brotli; the compressed body is another string
compressed(br, response) ==
    IF response.body = Undefined \/ BodyLength(response.body) < 32768
       \/ "content-encoding" \in DOMAIN response.headers
    THEN response
    ELSE IF ~br THEN response
    ELSE Response(response.status,
                  Assign([c \in {"content-encoding"} |-> "br"], response.headers),
                  Text("z"))

(***************************************************************************)
(* The six log methods of the facade.                                      *)
(***************************************************************************)
Methods == {"trace", "debug", "info", "warn", "error", "fatal"}

LevelNames == <<"fatal", "error", "warning", "info", "debug", "trace">>

\* the numeric level each method passes to collect
NumericLevel(method) ==
    CASE method = "trace" -> 5
      [] method = "debug" -> 4
      [] method = "info" -> 3
      [] method = "warn" -> 2
      [] method = "error" -> 1
      [] method = "fatal" -> 0

\* the level name each method passes to collect
LevelName(method) == LevelNames[NumericLevel(method) + 1]

\* makeLogger: the threshold of the root logger
MinimumLevel(minimumLogLevel) ==
    IF minimumLogLevel = "" THEN DefaultLevel
    ELSE (CHOOSE i \in DOMAIN LevelNames : LevelNames[i] = minimumLogLevel) - 1

(***************************************************************************)
(* State.                                                                  *)
(***************************************************************************)
VARIABLES
    loggers,         \* the EnrichingLogger facades created so far: level, reserved, custom
    arrays,          \* the heap of LogEntry[] arrays: array id -> entry ids
    entries,         \* LogBuffer.#entries: the id of the current queue array
    size,            \* LogBuffer.#size
    flusher,         \* LogBuffer.#flusher: 0 (undefined) or the promise chain[flusher]
    asyncTransport,  \* LogBuffer.#asyncTransport: "undefined", "true" or "false"
    timeout,         \* LogBuffer.#timeout: 0 (undefined) or a timer handle
    immediate,       \* the setImmediate probe: "none", "scheduled" or "done"
    timers,          \* the pending 2000 ms timers, oldest first
    chain,           \* the promises #flusher has held: the array each delivers, its state
    sent,            \* the sendEntries calls made so far, in call order
    transport,       \* the kind of transport: "async", "sync" or "mixed"
    flushes,         \* the promises returned by the explicit flush() calls
    log,             \* the LogEntry of every accepted log call, by entry id
    nCalls,          \* number of log calls made
    lastCall,        \* the last log call: logger, method
    enriched,        \* the enrich / enrichReserved calls made: on which logger, with which fields
    run,             \* the entries collected since the last explicit flush() call
    nRejected,       \* number of deliveries the transport rejected
    inv,             \* the invocation a wrapper runs: its kind, position and outcome
    ctx,             \* the context createContext made: its timers, signals and flush()
    served           \* the handler's module: the headers object it keeps, the requests answered

bufferVars == <<arrays, entries, size, flusher, asyncTransport, timeout, immediate,
                timers, chain, sent>>

vars == <<loggers, arrays, entries, size, flusher, asyncTransport, timeout, immediate,
          timers, chain, sent, transport, flushes, log, nCalls, lastCall, enriched,
          run, nRejected, inv, ctx, served>>

\* the buffer, the heap, the event loop and the transport as one value
World ==
    [arrays |-> arrays, entries |-> entries, size |-> size, flusher |-> flusher,
     asyncTransport |-> asyncTransport, timeout |-> timeout, immediate |-> immediate,
     timers |-> timers, chain |-> chain, sent |-> sent]

Commit(w) ==
    /\ arrays' = w.arrays
    /\ entries' = w.entries
    /\ size' = w.size
    /\ flusher' = w.flusher
    /\ asyncTransport' = w.asyncTransport
    /\ timeout' = w.timeout
    /\ immediate' = w.immediate
    /\ timers' = w.timers
    /\ chain' = w.chain
    /\ sent' = w.sent

\* the current queue
Queue == arrays[entries]

Remove(seq, x) == SelectSeq(seq, LAMBDA y : y # x)

Settled(st) == st \in {"fulfilled", "rejected"}

\* what sendEntries of each kind of transport may return
Rets(kind) ==
    CASE kind = "async" -> {"promise"}
      [] kind = "sync" -> {"void"}
      [] kind = "mixed" -> {"promise", "void"}

(***************************************************************************)
(* LogBuffer (logging.ts:30-128).                                          *)
(***************************************************************************)

\* this.#transport.sendEntries(arr, this.#signal), made by `via`, returning `ret`
SendEntries(w, arr, via, ret) ==
    [w EXCEPT !.sent = Append(@, [arr |-> arr, batch |-> w.arrays[arr],
                                  via |-> via, ret |-> ret])]

\* mutant of ResetEntries: the queue array is emptied in place
\* (this.#entries.length = 0) instead of being replaced
ResetEntriesInPlace(w) ==
    [w EXCEPT !.arrays[w.entries] = <<>>, !.size = 0]

\* this.#entries = []; this.#size = 0
ResetEntries(w) ==
    [w EXCEPT !.arrays = Append(@, <<>>), !.entries = Len(w.arrays) + 1, !.size = 0]

\* mutant of StartFlush: the batch is sent at once, the promise of the batch
\* before it being settled or not
StartFlushUnchained(w, arr, ret) ==
    LET s == SendEntries(w, arr, "flush", ret)
    IN  IF ret = "promise"
        THEN [s EXCEPT !.chain = Append(@, [arr |-> arr, st |-> "inflight"]),
                       !.flusher = Len(w.chain) + 1]
        ELSE [s EXCEPT !.flusher = 0]

\* #startFlush(entries)
StartFlush(w, arr, ret) ==
    IF w.flusher # 0
    THEN [w EXCEPT !.chain = Append(@, [arr |-> arr, st |-> "waiting"]),
                   !.flusher = Len(w.chain) + 1]
    ELSE LET s == SendEntries(w, arr, "flush", ret)
         IN  IF ret = "promise"
             THEN [s EXCEPT !.chain = Append(@, [arr |-> arr, st |-> "inflight"]),
                            !.flusher = Len(w.chain) + 1]
             ELSE [s EXCEPT !.flusher = 0]

\* flush(), up to its await
FlushBody(w, ret) ==
    IF w.arrays[w.entries] = <<>>
    THEN w
    ELSE LET a == ResetEntries(StartFlush(w, w.entries, ret))
         IN  IF a.timeout # 0
             THEN [a EXCEPT !.timers = Remove(@, a.timeout), !.timeout = 0]
             ELSE a

\* mutant of ShouldFlush: the count threshold is 1
ShouldFlushEarly(numericLogLevel, length, bytes) ==
    \/ numericLogLevel < UrgentLevel
    \/ length > 1
    \/ bytes > MaxQueuedSize

\* mutant of ShouldFlush: the level is not looked at
ShouldFlushNoLevel(numericLogLevel, length, bytes) ==
    \/ length > MaxQueuedEntries
    \/ bytes > MaxQueuedSize

\* mutant of ShouldFlush: the count threshold is one too high
ShouldFlushLate(numericLogLevel, length, bytes) ==
    \/ numericLogLevel < UrgentLevel
    \/ length > MaxQueuedEntries + 1
    \/ bytes > MaxQueuedSize

\* the condition of an immediate flush in collect
ShouldFlush(numericLogLevel, length, bytes) ==
    \/ numericLogLevel < UrgentLevel
    \/ length > MaxQueuedEntries
    \/ bytes > MaxQueuedSize

\* mutant of ScheduleProbe: the mode is left undefined until the probe runs
ScheduleProbeNoMode(w) ==
    [w EXCEPT !.immediate = "scheduled"]

\* the branch of collect taken while #asyncTransport is undefined
ScheduleProbe(w) ==
    [w EXCEPT !.asyncTransport = "true", !.immediate = "scheduled"]

\* mutant of SyncSend: the queue is not reset after the send
SyncSendKeep(w, ret) ==
    SendEntries(w, w.entries, "sync", ret)

\* the branch of collect taken while #asyncTransport is false
SyncSend(w, ret) ==
    ResetEntries(SendEntries(w, w.entries, "sync", ret))

\* mutant of Collect: a collect that does not flush sets no idle timer
CollectNoTimer(w, id, numericLogLevel, len, ret) ==
    LET p == [w EXCEPT !.arrays[w.entries] = Append(@, id), !.size = @ + len]
    IN  IF p.asyncTransport = "false"
        THEN SyncSend(p, ret)
        ELSE IF p.asyncTransport = "undefined"
        THEN ScheduleProbe(p)
        ELSE IF ShouldFlush(numericLogLevel, Len(p.arrays[p.entries]), p.size)
        THEN FlushBody(p, ret)
        ELSE p

\* collect(), after the line was serialized: entry `id`, its json of `len` chars
Collect(w, id, numericLogLevel, len, ret) ==
    LET p == [w EXCEPT !.arrays[w.entries] = Append(@, id), !.size = @ + len]
    IN  IF p.asyncTransport = "false"
        THEN SyncSend(p, ret)
        ELSE IF p.asyncTransport = "undefined"
        THEN ScheduleProbe(p)
        ELSE IF ShouldFlush(numericLogLevel, Len(p.arrays[p.entries]), p.size)
        THEN FlushBody(p, ret)
        ELSE [p EXCEPT !.timers = Append(@, id), !.timeout = id]

\* mutant of ProbeBody: the probe does not look at #flusher
ProbeBodyAlways(w, ret) ==
    LET s == ResetEntries(SendEntries(w, w.entries, "probe", ret))
    IN  IF ret = "promise"
        THEN [s EXCEPT !.chain = Append(@, [arr |-> w.entries, st |-> "inflight"]),
                       !.flusher = Len(w.chain) + 1]
        ELSE [s EXCEPT !.asyncTransport = "false"]

\* mutant of ProbeBody: a call that returns nothing does not switch the mode
ProbeBodyNoMode(w, ret) ==
    IF w.flusher # 0
    THEN w
    ELSE LET s == ResetEntries(SendEntries(w, w.entries, "probe", ret))
         IN  IF ret = "promise"
             THEN [s EXCEPT !.chain = Append(@, [arr |-> w.entries, st |-> "inflight"]),
                            !.flusher = Len(w.chain) + 1]
             ELSE s

\* the setImmediate callback of collect
ProbeBody(w, ret) ==
    IF w.flusher # 0
    THEN w
    ELSE LET s == ResetEntries(SendEntries(w, w.entries, "probe", ret))
         IN  IF ret = "promise"
             THEN [s EXCEPT !.chain = Append(@, [arr |-> w.entries, st |-> "inflight"]),
                            !.flusher = Len(w.chain) + 1]
             ELSE [s EXCEPT !.asyncTransport = "false"]

\* the setTimeout callback of collect
TimerBody(w, ret) ==
    [FlushBody(w, ret) EXCEPT !.timeout = 0]

\* mutant of ChainBody: the callback runs behind a rejected delivery as behind
\* a fulfilled one (then(f, f))
ChainBodyResume(w, i, ret) ==
    LET s == SendEntries(w, w.chain[i].arr, "chain", ret)
    IN  [s EXCEPT !.chain[i].st = IF ret = "promise" THEN "inflight" ELSE "fulfilled"]

\* mutant of ChainBody: behind a rejected delivery the callback sends the failed
\* batch once more
ChainBodyRetry(w, i, ret) ==
    IF w.chain[i - 1].st = "rejected"
    THEN LET s == SendEntries(w, w.chain[i - 1].arr, "chain", ret)
         IN  [s EXCEPT !.chain[i].st = "rejected"]
    ELSE LET s == SendEntries(w, w.chain[i].arr, "chain", ret)
         IN  [s EXCEPT !.chain[i].st = IF ret = "promise" THEN "inflight" ELSE "fulfilled"]

\* the callback #startFlush chained behind chain[i - 1], once that has settled
ChainBody(w, i, ret) ==
    IF w.chain[i - 1].st = "rejected"
    THEN [w EXCEPT !.chain[i].st = "rejected"]
    ELSE LET s == SendEntries(w, w.chain[i].arr, "chain", ret)
         IN  [s EXCEPT !.chain[i].st = IF ret = "promise" THEN "inflight" ELSE "fulfilled"]

(***************************************************************************)
(* EnrichingLogger (logging.ts:143-265) and the serialized line.           *)
(***************************************************************************)

\* makeLogger: the AbortSignal it passes as reservedEnrichment has no own
\* enumerable property
RootLogger(minimumLogLevel) ==
    [level |-> MinimumLevel(minimumLogLevel), reserved |-> Some(EmptyObj),
     custom |-> Undefined]

\* mutant of Extra: the spreads are swapped, { ...fields, ...customEnrichment }
ExtraCustomLast(fields, customEnrichment) ==
    IF fields = Undefined
    THEN IF customEnrichment = Undefined THEN Undefined ELSE customEnrichment
    ELSE IF customEnrichment = Undefined THEN fields
    ELSE Some(Assign(fields[1], customEnrichment[1]))

\* extra(fields, customEnrichment)
Extra(fields, customEnrichment) ==
    IF fields = Undefined
    THEN IF customEnrichment = Undefined THEN Undefined ELSE customEnrichment
    ELSE IF customEnrichment = Undefined THEN fields
    ELSE Some(Assign(customEnrichment[1], fields[1]))

\* mutant of Line: the reserved enrichment is spread last
LineReservedLast(level, message, fields, reservedEnrichment, customEnrichment) ==
    Assign(Assign([timestamp |-> "t", level |-> level, message |-> message],
                  Spread(Extra(fields, customEnrichment))),
           Spread(reservedEnrichment))

\* the object collect hands to JSON.stringify (an undefined error is left out)
Line(level, message, fields, reservedEnrichment, customEnrichment) ==
    Assign(Assign([timestamp |-> "t", level |-> level, message |-> message],
                  Spread(reservedEnrichment)),
           Spread(Extra(fields, customEnrichment)))

\* mutant of Filtered: the comparison is off by one
FilteredOffByOne(level, method) ==
    method # "fatal" /\ level + 1 < NumericLevel(method)

\* the early return of trace, debug, info, warn and error; fatal has none
Filtered(level, method) ==
    method # "fatal" /\ level < NumericLevel(method)

\* mutant of EnrichLoggers: enrich also changes the logger it is called on
EnrichLoggersInPlace(ls, lg, fields) ==
    LET new == [level |-> ls[lg].level, reserved |-> ls[lg].reserved,
                custom |-> Some(Assign(Spread(ls[lg].custom), fields))]
    IN  Append([ls EXCEPT ![lg] = new], new)

\* enrich(fields): the facades after the call, the new one last
EnrichLoggers(ls, lg, fields) ==
    Append(ls, [level |-> ls[lg].level, reserved |-> ls[lg].reserved,
                custom |-> Some(Assign(Spread(ls[lg].custom), fields))])

\* enrichReserved(fields): the facades after the call, the new one last
EnrichReservedLoggers(ls, lg, fields) ==
    Append(ls, [level |-> ls[lg].level,
                reserved |-> Some(Assign(Spread(ls[lg].reserved), fields)),
                custom |-> ls[lg].custom])

(***************************************************************************)
(* Actions.                                                                *)
(***************************************************************************)

\* logger lg's trace/debug/info/warn/error/fatal (message, undefined, fields)
LogCall(lg, method, message, fields, bound) ==
    /\ nCalls < bound
    /\ nCalls' = nCalls + 1
    /\ lastCall' = [lg |-> lg, method |-> method, fields |-> fields,
                     error |-> "none", threw |-> FALSE]
    /\ IF Filtered(loggers[lg].level, method)
       THEN UNCHANGED <<bufferVars, log, run>>
       ELSE \E ret \in Rets(transport) :
              LET line == Line(LevelName(method), message, fields,
                               loggers[lg].reserved, loggers[lg].custom)
                  id == Len(log) + 1
              IN  /\ log' = Append(log, [timestamp |-> id, level |-> LevelName(method),
                                         message |-> message, json |-> line,
                                         length |-> JsonLength(line),
                                         lvl |-> NumericLevel(method), lg |-> lg,
                                         fields |-> fields, errorOf |-> "none",
                                         error |-> Undefined])
                  /\ run' = [run EXCEPT !.ids = Append(@, id)]
                  /\ Commit(Collect(World, id, NumericLevel(method),
                                    JsonLength(line), ret))
    /\ UNCHANGED <<served, ctx, inv, loggers, transport, flushes, enriched, nRejected>>

\* logger lg's trace/debug/info/warn/error/fatal (message, error): the call
\* throws what JSON.stringify throws, before the entry is pushed
LogError(lg, method, message, name, bound) ==
    /\ nCalls < bound
    /\ nCalls' = nCalls + 1
    /\ LET e == ErrorValue(name)
           asJson == errorAsJson(e.heap, e.root)
           r == IF asJson = Undefined THEN Done(Node("undefined", "", <<>>))
                ELSE StringifyError(e.heap, e.root)
           line == Line(LevelName(method), message, Undefined,
                        loggers[lg].reserved, loggers[lg].custom)
           length == JsonLength(line)
                     + (IF asJson = Undefined THEN 0 ELSE 9 + NodeLength(r.node))
           id == Len(log) + 1
       IN  IF Filtered(loggers[lg].level, method)
           THEN /\ lastCall' = [lg |-> lg, method |-> method, fields |-> Undefined,
                                error |-> name, threw |-> FALSE]
                /\ UNCHANGED <<bufferVars, log, run>>
           ELSE IF r.thrown
           THEN /\ lastCall' = [lg |-> lg, method |-> method, fields |-> Undefined,
                                error |-> name, threw |-> TRUE]
                /\ UNCHANGED <<bufferVars, log, run>>
           ELSE \E ret \in Rets(transport) :
                  /\ lastCall' = [lg |-> lg, method |-> method, fields |-> Undefined,
                                  error |-> name, threw |-> FALSE]
                  /\ log' = Append(log, [timestamp |-> id, level |-> LevelName(method),
                                         message |-> message, json |-> line,
                                         length |-> length,
                                         lvl |-> NumericLevel(method), lg |-> lg,
                                         fields |-> Undefined, errorOf |-> name,
                                         error |-> IF asJson = Undefined THEN Undefined
                                                   ELSE Some(r.node)])
                  /\ run' = [run EXCEPT !.ids = Append(@, id)]
                  /\ Commit(Collect(World, id, NumericLevel(method), length, ret))
    /\ UNCHANGED <<served, ctx, inv, loggers, transport, flushes, enriched, nRejected>>

\* logger lg's enrich(fields)
Enrich(lg, fields) ==
    /\ Len(loggers) < MaxLoggers
    /\ loggers' = EnrichLoggers(loggers, lg, fields)
    /\ enriched' = Append(enriched, [lg |-> lg, made |-> Len(loggers'),
                                     fields |-> fields, reserved |-> FALSE,
                                     at |-> Len(log), before |-> loggers[lg]])
    /\ UNCHANGED <<served, ctx, inv, bufferVars, transport, flushes, log, nCalls, lastCall, run, nRejected>>

\* logger lg's enrichReserved(fields)
EnrichReserved(lg, fields) ==
    /\ Len(loggers) < MaxLoggers
    /\ loggers' = EnrichReservedLoggers(loggers, lg, fields)
    /\ enriched' = Append(enriched, [lg |-> lg, made |-> Len(loggers'),
                                     fields |-> fields, reserved |-> TRUE,
                                     at |-> Len(log), before |-> loggers[lg]])
    /\ UNCHANGED <<served, ctx, inv, bufferVars, transport, flushes, log, nCalls, lastCall, run, nRejected>>

\* the promise an explicit flush() returns: resolved at once by the early
\* return, else awaiting #flusher as it is after #startFlush
FlushPromise(w, after) ==
    IF w.arrays[w.entries] = <<>>
    THEN [st |-> "resolved", awaits |-> 0]
    ELSE [st |-> "pending", awaits |-> after.flusher]

\* an explicit flush() call of a logger
Flush ==
    /\ Len(flushes) < MaxFlush
    /\ \E ret \in Rets(transport) :
         LET after == FlushBody(World, ret)
             p == FlushPromise(World, after)
         IN  /\ Commit(after)
             /\ flushes' = Append(flushes,
                    [st |-> p.st, awaits |-> p.awaits, upto |-> Len(after.chain),
                     queued |-> Queue, run |-> run.ids,
                     clean |-> run.clean /\ asyncTransport # "false",
                     idle |-> flusher = 0, nsent |-> Len(after.sent)])
    /\ run' = [ids |-> <<>>, clean |-> TRUE]
    /\ UNCHANGED <<served, ctx, inv, loggers, transport, log, nCalls, lastCall, enriched, nRejected>>

\* the awaited #flusher has settled (or is undefined): flush() settles likewise
FlushSettle(f) ==
    /\ flushes[f].st = "pending"
    /\ \/ /\ flushes[f].awaits = 0
          /\ flushes' = [flushes EXCEPT ![f].st = "resolved"]
       \/ /\ flushes[f].awaits # 0
          /\ Settled(chain[flushes[f].awaits].st)
          /\ flushes' = [flushes EXCEPT ![f].st =
                           IF chain[flushes[f].awaits].st = "fulfilled"
                           THEN "resolved" ELSE "rejected"]
    /\ UNCHANGED <<served, ctx, inv, bufferVars, loggers, transport, log, nCalls, lastCall, enriched,
                   run, nRejected>>

\* a promise reaction (a microtask) is due: the event loop runs it before the
\* next setImmediate or setTimeout callback
MicrotaskDue ==
    \/ \E i \in DOMAIN chain :
         i > 1 /\ chain[i].st = "waiting" /\ Settled(chain[i - 1].st)
    \/ \E f \in DOMAIN flushes :
         /\ flushes[f].st = "pending"
         /\ flushes[f].awaits # 0 => Settled(chain[flushes[f].awaits].st)

\* the event loop runs the setImmediate callback
Probe ==
    /\ immediate = "scheduled"
    /\ ~MicrotaskDue
    /\ \E ret \in Rets(transport) :
         Commit([ProbeBody(World, ret) EXCEPT !.immediate = "done"])
    /\ run' = [run EXCEPT !.clean = @ /\ run.ids = <<>>]
    /\ UNCHANGED <<served, ctx, inv, loggers, transport, flushes, log, nCalls, lastCall, enriched,
                   nRejected>>

\* the oldest pending 2000 ms timer fires; setImmediate callbacks scheduled
\* before a timer was set run before it
TimerFire ==
    /\ timers # <<>>
    /\ immediate # "scheduled"
    /\ ~MicrotaskDue
    /\ \E ret \in Rets(transport) :
         Commit(TimerBody([World EXCEPT !.timers = Tail(@)], ret))
    /\ run' = [run EXCEPT !.clean = @ /\ run.ids = <<>>]
    /\ UNCHANGED <<served, ctx, inv, loggers, transport, flushes, log, nCalls, lastCall, enriched,
                   nRejected>>

\* the promise before chain[i] has settled: its then-callback runs
ChainStep(i) ==
    /\ i > 1
    /\ chain[i].st = "waiting"
    /\ Settled(chain[i - 1].st)
    /\ \E ret \in Rets(transport) : Commit(ChainBody(World, i, ret))
    /\ UNCHANGED <<served, ctx, inv, loggers, transport, flushes, log, nCalls, lastCall, enriched,
                   run, nRejected>>

\* the transport fulfils the promise it returned for chain[i]
TransportResolve(i) ==
    /\ chain[i].st = "inflight"
    /\ chain' = [chain EXCEPT ![i].st = "fulfilled"]
    /\ UNCHANGED <<served, ctx, inv, loggers, arrays, entries, size, flusher, asyncTransport, timeout,
                   immediate, timers, sent, transport, flushes, log, nCalls, lastCall,
                   enriched, run, nRejected>>

\* the transport rejects the promise it returned for chain[i]
TransportReject(i) ==
    /\ nRejected < MaxReject
    /\ chain[i].st = "inflight"
    /\ chain' = [chain EXCEPT ![i].st = "rejected"]
    /\ nRejected' = nRejected + 1
    /\ UNCHANGED <<served, ctx, inv, loggers, arrays, entries, size, flusher, asyncTransport, timeout,
                   immediate, timers, sent, transport, flushes, log, nCalls, lastCall,
                   enriched, run>>

(***************************************************************************)
(* The process-level handlers (context.ts:156-163).  Node emits            *)
(* 'unhandledRejection' for a promise that was rejected while no reaction  *)
(* was attached to it.                                                     *)
(***************************************************************************)

\* chain[i] is the promise the probe stored in #flusher
ProbePromise(i) ==
    \E s \in DOMAIN sent : sent[s].via = "probe" /\ sent[s].arr = chain[i].arr

\* chain[i] was chained by a flush() whose promise nobody holds: the
\* `void this.flush()` of collect or of the idle timer
VoidFlush(i) ==
    /\ ~ProbePromise(i)
    /\ \A f \in DOMAIN flushes : flushes[f].awaits # i

\* the batch of chain[i] ends with the fatal entry of the handler: the flush
\* that chained it was the one of that entry's collect
HandlerMade(i) ==
    /\ i \in DOMAIN chain
    /\ arrays[chain[i].arr] # <<>>
    /\ log[arrays[chain[i].arr][Len(arrays[chain[i].arr])]].message = "Unhandled rejection."

\* the rejected promises nothing reacted to: the promise of a void flush()
\* behind a rejected #flusher, and the probe's promise when nothing had been
\* chained to it before the event was emitted
Unhandled ==
    {i \in DOMAIN chain :
        /\ chain[i].st = "rejected"
        /\ \/ VoidFlush(i)
           \/ ProbePromise(i) /\ (i = Len(chain) \/ HandlerMade(i + 1))}

\* the entries the handler has logged, one for each event emitted
Reported == {n \in DOMAIN log : log[n].message = "Unhandled rejection."}

\* process.on('unhandledRejection', reason => globalLogger?.fatal(...)), the
\* reason being the Error the delivery was rejected with
UnhandledRejection ==
    /\ Cardinality(Unhandled) > Cardinality(Reported)
    /\ Cardinality(Reported) < MaxRejections
    /\ LogError(1, "fatal", "Unhandled rejection.", "error", MaxCalls + MaxRejections)

(***************************************************************************)
(* The invocation wrappers: executeRequest (http.ts:29-150), triggerTimer  *)
(* and handle.  A wrapper runs in steps, from one await to the next; its   *)
(* log calls go through the facade into the buffer.                        *)
(***************************************************************************)

\* createContext has not been called: no timers, no signals
NoContext ==
    [soft |-> "none", hard |-> "none", inner |-> FALSE, outer |-> FALSE, clock |-> 0,
     flush |-> 0, done |-> "none", flushedAt |-> 0, settledAt |-> 0]

\* the handler's module as loaded: its headers object is {}, no request yet
NoRequests == [headers |-> EmptyObj, history |-> <<>>]

\* the result the handler returns: a catalogue value, its headers being the
\* module's headers object as the requests before have left it
HandlerResult(name) ==
    LET v == ResultValue(name)
    IN  IF name \in SharedNames
        THEN [v EXCEPT !.heap[2].props = PropsOf(served.headers)]
        ELSE v

\* the module after a step of the invocation i
Kept(s, i) == IF i.shared = Undefined THEN s ELSE [s EXCEPT !.headers = i.shared[1]]

\* what a finished invocation leaves in the history: the request's
\* if-none-match, the result, the converted response and the response sent
Answer(i) ==
    [kind |-> i.kind, ifNoneMatch |-> i.ifNoneMatch, br |-> i.br, value |-> i.value,
     handler |-> i.handler, aborted |-> i.aborted, failed |-> i.failed,
     converted |-> i.converted, response |-> i.response]

\* no wrapper has been called yet
NoInvocation ==
    [kind |-> "none", pc |-> "idle", log |-> 0, measure |-> 0, ifNoneMatch |-> "",
     br |-> FALSE, aborted |-> FALSE, handler |-> "pending", value |-> "none",
     ran |-> 0, failed |-> FALSE, converted |-> Undefined, outcome |-> "pending",
     response |-> Undefined, shared |-> Undefined, options |-> {}, exclude |-> FALSE,
     key |-> "", xShallow |-> ""]

\* the facades, the buffer and the entries as one value; threw: a log call
\* has thrown
Logging ==
    [loggers |-> loggers, w |-> World, log |-> log, run |-> run, threw |-> FALSE]

CommitLogging(l) ==
    /\ loggers' = l.loggers
    /\ Commit(l.w)
    /\ log' = l.log
    /\ run' = l.run

\* log.enrichReserved(fields): the new facade is the last of l.loggers
Reserved(l, lg, fields) ==
    [l EXCEPT !.loggers = EnrichReservedLoggers(@, lg, fields)]

\* facade lg's method(message, error, fields), the error being ErrorValue(name)
Facade(l, lg, method, message, name, fields, ret) ==
    LET e == ErrorValue(name)
        asJson == errorAsJson(e.heap, e.root)
        r == IF asJson = Undefined THEN Done(Node("undefined", "", <<>>))
             ELSE StringifyError(e.heap, e.root)
        line == Line(LevelName(method), message, fields,
                     l.loggers[lg].reserved, l.loggers[lg].custom)
        length == JsonLength(line)
                  + (IF asJson = Undefined THEN 0 ELSE 9 + NodeLength(r.node))
        id == Len(l.log) + 1
    IN  IF Filtered(l.loggers[lg].level, method) THEN l
        ELSE IF r.thrown THEN [l EXCEPT !.threw = TRUE]
        ELSE [l EXCEPT
                !.log = Append(@, [timestamp |-> id, level |-> LevelName(method),
                                   message |-> message, json |-> line,
                                   length |-> length, lvl |-> NumericLevel(method),
                                   lg |-> lg, fields |-> fields, errorOf |-> name,
                                   error |-> IF asJson = Undefined THEN Undefined
                                             ELSE Some(r.node)]),
                !.run = [@ EXCEPT !.ids = Append(@, id)],
                !.w = Collect(l.w, id, NumericLevel(method), length, ret)]

\* measure(logger, 'execution', fn): its finally block
Measured(l, lg, ret) ==
    Facade(l, lg, "trace", "Measurement of execution time", "none",
           Some([start |-> "t", end |-> "t", duration |-> "d"]), ret)

\* the request options of the model, as the set of their keys: without a
\* body, with a string body, with a json body, with both
Options ==
    {{"uri", "headers"}, {"uri", "headers", "body"}, {"uri", "headers", "json"},
     {"uri", "headers", "body", "json"}}

\* withoutRequestBody(options) (http.ts:202-212)
withoutRequestBody(options) ==
    IF "json" \in options THEN options \ {"json"}
    ELSE IF "body" \in options THEN options \ {"body"}
    ELSE options

\* the value logged as `request`: "q" stands for the method, the uri and the
\* headers, "j" for the json body and "b" for the string body
Logged(options) ==
    "q" \o (IF "json" \in options THEN "j" ELSE "")
        \o (IF "body" \in options THEN "b" ELSE "")

\* resultToResponse's logBody is there: the result has a body and withLogBody
\* is set (http.ts:159, 174, 182, 190)
logBody(response, withLogBody) == withLogBody /\ response.body # Undefined

\* the value logged as `response`: "r" stands for the status and the
\* headers, "b" for a body
LoggedResponse(withBody) == "r" \o (IF withBody THEN "b" ELSE "")

\* the trigger times a timer wrapper is called with (options.triggerTime)
TriggerTimes == {"t1", "t2"}

\* JSON.stringify of { time: value }: a Date gives its ISO string, a property
\* whose value is a function is left out
TriggerLogged(time) == IF time = "function" THEN "{}" ELSE "{time:" \o time \o "}"

\* the fields each wrapper passes to enrichReserved
Descriptor(kind, options, exclude) ==
    CASE kind = "http" ->
           [meta |-> "p",
            request |-> Logged(IF exclude THEN withoutRequestBody(options) ELSE options)]
      \* { meta: context.meta, trigger: { time: triggerTimer } } (part_002:14):
      \* the time is the wrapper function itself, not options.triggerTime
      [] kind = "timer" -> [meta |-> "p", trigger |-> TriggerLogged("function")]
      [] kind = "event" -> [meta |-> "p", event |-> "v"]

Begin(kind) ==
    CASE kind = "http" -> "Request BEGIN"
      [] kind = "timer" -> "Timer BEGIN"
      [] kind = "event" -> "Event BEGIN"

End(kind) ==
    CASE kind = "http" -> "Request END"
      [] kind = "timer" -> "Timer END"
      [] kind = "event" -> "Event END"

\* how a wrapper ends: its promise resolves (for HTTP with a response) or rejects
Ended(l, i, outcome, response) ==
    [l |-> [l EXCEPT !.threw = FALSE],
     inv |-> [i EXCEPT !.pc = "done", !.outcome = outcome, !.response = response]]

\* how a wrapper goes on to await success()
Awaiting(l, i) == [l |-> l, inv |-> [i EXCEPT !.pc = "success", !.ran = @ + 1]]

\* executeRequest, the inner catch (http.ts:142-148)
CouldNotConvert(l, i, ret) ==
    Ended(Facade([l EXCEPT !.threw = FALSE], i.log, "error",
                 "Could not convert exception to error response.", "typeError",
                 Undefined, ret),
          i, "resolved", Some(Response(JsNumber(500), EmptyObj, Undefined)))

\* executeRequest, the catch block after the conversion (http.ts:139-141):
\* enriched1 is the logging after enrichReserved({ response })
RequestFailed(enriched1, i, name, response, ret) ==
    LET j == [i EXCEPT !.log = Len(enriched1.loggers), !.failed = TRUE]
    IN  CHOOSE x \in
          {IF a.threw THEN CouldNotConvert(a, j, ret)
           ELSE Ended(a, j, "resolved", Some(response)) :
             a \in {Facade(enriched1, j.log, "error", "Request END", name,
                           Undefined, ret)}} : TRUE

\* executeRequest, the catch block (http.ts:136-149), e being ErrorValue(name)
CatchRequest(l, i, name, ret) ==
    LET e == ErrorValue(name)
        c == errorToResponse(e.heap, e.root)
    IN  IF c.thrown THEN CouldNotConvert(l, [i EXCEPT !.failed = TRUE], ret)
        ELSE CHOOSE x \in
               {RequestFailed(enriched1, i, name, c.response, ret) :
                  enriched1 \in {Reserved(l, i.log,
                      [response |-> LoggedResponse(c.response.body # Undefined)])}} : TRUE

\* triggerTimer and handle, the catch block
CatchTrigger(l, i, name, ret) ==
    CHOOSE x \in
      {Ended(a, [i EXCEPT !.failed = TRUE],
             IF a.threw THEN "rejected" ELSE "resolved", Undefined) :
         a \in {Facade(l, i.log, "error", End(i.kind), name, Undefined, ret)}} : TRUE

Catch(l, i, name, ret) ==
    IF i.kind = "http" THEN CatchRequest(l, i, name, ret)
    ELSE CatchTrigger(l, i, name, ret)

\* the values of SHALLOW_KEY in the environment ("": not set) and of the
\* request's x-shallow header ("": no such header)
ShallowKeys == {"", "k"}
XShallows == {"", "k", "x"}

\* mutant of isShallow: the header is compared with the key, set or not
isShallowUnset(key, xShallow) == xShallow = key

\* isShallow (http.ts:36-37): SHALLOW_KEY is set and the header equals it
isShallow(key, xShallow) == key # "" /\ xShallow = key

\* a wrapper from its enriched logger (the last of a.loggers) to the call of
\* the handler; executeRequest answers a shallow request without calling it
Entered(a, kind, key, xShallow, ifNoneMatch, br, options, exclude, ret) ==
    LET lg == Len(a.loggers)
        i == [NoInvocation EXCEPT !.kind = kind, !.log = lg,
                                  !.ifNoneMatch = ifNoneMatch, !.br = br,
                                  !.options = options, !.exclude = exclude,
                                  !.key = key, !.xShallow = xShallow]
    IN  IF kind = "http" /\ isShallow(key, xShallow)
        THEN Ended(Facade(a, lg, "trace", "Shallow request", "none", Undefined, ret),
                   i, "resolved", Some(Response(JsNumber(204), EmptyObj, Undefined)))
        ELSE CHOOSE x \in
               {[l |-> c, inv |-> [i EXCEPT !.pc = "running",
                                            !.measure = Len(c.loggers)]] :
                  c \in {IF kind = "http"
                         THEN Reserved(Facade(a, lg, "trace", Begin(kind), "none",
                                              Undefined, ret), 1, [meta |-> "p"])
                         ELSE Facade(a, lg, "trace", Begin(kind), "none",
                                     Undefined, ret)}} : TRUE

\* a wrapper from its call to the call of the handler
Begun(l, kind, key, xShallow, ifNoneMatch, br, options, exclude, ret) ==
    CHOOSE x \in {Entered(a, kind, key, xShallow, ifNoneMatch, br, options, exclude,
                          ret) :
                    a \in {Reserved(l, 1, Descriptor(kind, options, exclude))}} : TRUE

\* a variant: the success callbacks run for every status below 400
SucceedsBelow400(response) == response.status.n < 400

\* the status for which executeRequest runs the success callbacks (http.ts:129)
Succeeds(response) == response.status.n < 300

\* executeRequest, its return (http.ts:135): eTagged sets the etag on the
\* headers object of the response, which is the handler's own unless the
\* signal was aborted
Returning(l, i, response) ==
    Ended(l,
          [i EXCEPT !.shared = IF @ # Undefined /\ ~i.aborted
                               THEN Some(eTagged(i.ifNoneMatch, response).headers)
                               ELSE @],
          "resolved", Some(compressed(i.br, eTagged(i.ifNoneMatch, response))))

\* executeRequest, from the converted response to the await of success() or
\* to the return (http.ts:122-135): a is the logging after
\* enrichReserved({ response })
Finished(a, i, response, ret) ==
    LET j == [i EXCEPT !.log = Len(a.loggers), !.converted = Some(response)]
    IN  IF Succeeds(response)
        THEN Awaiting(Facade(a, j.log, "debug", "Request END", "none", Undefined, ret),
                      j)
        ELSE Returning(Facade(a, j.log, "warn", "Request END", "none", Undefined, ret),
                       j, response)

\* executeRequest, from the handler's result to the await of success() or to
\* the return (http.ts:113-135)
Responded(l, i, name, ret) ==
    LET v == HandlerResult(name)
        c == resultToResponse(v.heap, v.root)
        response == IF i.aborted
                    THEN [c.response EXCEPT
                            !.headers = Assign([x \in {"x-timeout"} |-> "1"], @)]
                    ELSE c.response
        j == [i EXCEPT !.shared = IF name \in SharedNames
                                  THEN Some(c.response.headers) ELSE @]
    IN  IF c.thrown THEN CatchRequest(l, i, "typeError", ret)
        ELSE CHOOSE x \in {Finished(a, j, response, ret) :
                             a \in {Reserved(l, i.log,
                                 [response |-> LoggedResponse(
                                     logBody(c.response, ~i.exclude))])}} : TRUE

\* a wrapper after measure's finally block (m), the handler having returned
Resumed(m, i, name, ret) ==
    IF i.kind = "http" THEN Responded(m, i, name, ret)
    ELSE Awaiting(Facade(m, i.log, "debug", End(i.kind), "none", Undefined, ret), i)

\* a wrapper from the return of the handler to its next await or its end
Returned(l, i, name, ret) ==
    CHOOSE x \in {Resumed(m, [i EXCEPT !.handler = "returned", !.value = name],
                          name, ret) :
                    m \in {Measured(l, i.measure, ret)}} : TRUE

\* mutant of Threw: measure without its finally block, nothing is logged for
\* a handler that throws
ThrewUnmeasured(l, i, name, ret) ==
    Catch(l, [i EXCEPT !.handler = "threw", !.value = name], name, ret)

\* a wrapper from the throw of the handler to its end
Threw(l, i, name, ret) ==
    CHOOSE x \in {Catch(m, [i EXCEPT !.handler = "threw", !.value = name], name, ret) :
                    m \in {Measured(l, i.measure, ret)}} : TRUE

\* a wrapper after success() has resolved
Succeeded(l, i) ==
    IF i.kind = "http"
    THEN Returning(l, i, i.converted[1])
    ELSE Ended(l, i, "resolved", Undefined)

\* the host calls a wrapper, which runs up to the call of the handler
Invoke(kind, key, xShallow, ifNoneMatch, br, options, exclude) ==
    /\ inv.kind = "none"
    /\ Len(served.history) < MaxRequests
    /\ \E ret \in Rets(transport) :
         \E x \in {Begun(Logging, kind, key, xShallow, ifNoneMatch, br, options, exclude,
                         ret)} :
            CommitLogging(x.l) /\ inv' = x.inv
    /\ UNCHANGED <<served, ctx, transport, flushes, nCalls, lastCall, enriched, nRejected>>

\* the handler's entry function returns (its promise resolves with) a result
HandlerReturns(name) ==
    /\ inv.pc = "running"
    /\ \E ret \in Rets(transport) :
         \E x \in {Returned(Logging, [inv EXCEPT !.aborted = ctx.inner], name, ret)} :
            CommitLogging(x.l) /\ inv' = x.inv /\ served' = Kept(served, x.inv)
    /\ UNCHANGED <<ctx, transport, flushes, nCalls, lastCall, enriched, nRejected>>

\* the handler's entry function throws (its promise rejects with) a value
HandlerThrows(name) ==
    /\ inv.pc = "running"
    /\ \E ret \in Rets(transport) :
         \E x \in {Threw(Logging, inv, name, ret)} :
            CommitLogging(x.l) /\ inv' = x.inv
    /\ UNCHANGED <<served, ctx, transport, flushes, nCalls, lastCall, enriched, nRejected>>

\* the promise of success() resolves
SuccessResolves ==
    /\ inv.pc = "success"
    /\ \E x \in {Succeeded(Logging, inv)} :
         CommitLogging(x.l) /\ inv' = x.inv /\ served' = Kept(served, x.inv)
    /\ UNCHANGED <<ctx, transport, flushes, nCalls, lastCall, enriched, nRejected>>

\* a success callback throws: the promise of success() rejects with the value
SuccessRejects(name) ==
    /\ inv.pc = "success"
    /\ \E ret \in Rets(transport) :
         \E x \in {Catch(Logging, inv, name, ret)} :
            CommitLogging(x.l) /\ inv' = x.inv
    /\ UNCHANGED <<served, ctx, transport, flushes, nCalls, lastCall, enriched, nRejected>>

\* the host has sent the response and takes the next request
Respond ==
    /\ inv.pc = "done"
    /\ served' = [served EXCEPT !.history = Append(@, Answer(inv))]
    /\ inv' = NoInvocation
    /\ UNCHANGED <<ctx, bufferVars, loggers, transport, flushes, log, nCalls, lastCall,
                   enriched, run, nRejected>>

(***************************************************************************)
(* createContext (host/context.ts:66-154): the soft timer at `timeout` ms, *)
(* the hard timer at `timeout + 15000` ms, the inner and the outer         *)
(* AbortController, and the flush() it returns.  Time is the position of   *)
(* the clock relative to the two deadlines.                                *)
(***************************************************************************)

\* the clock: before the soft deadline, past it, past the hard deadline
BeforeSoft == 0
PastSoft == 1
PastHard == 2

\* the logger createContext makes: makeLogger(...).enrichReserved({ operationId,
\* client })
ContextLogger ==
    [level |-> MinimumLevel(""),
     reserved |-> Some(Assign(EmptyObj, [k \in {"operationId", "client"} |-> "c"])),
     custom |-> Undefined]

\* the context as createContext returns it: both timers armed, no signal aborted
NewContext ==
    [NoContext EXCEPT !.soft = "armed", !.hard = "armed", !.done = "idle"]

\* clearTimeout(handle): a timer that has fired or was cleared stays as it is
Cleared(timer) == IF timer = "armed" THEN "cleared" ELSE timer

\* the continuation of the context's flush() behind `await logger.flush()` is
\* due: it runs before the next timer callback
ContinuationDue ==
    /\ ctx.done = "awaiting"
    /\ flushes[ctx.flush].st # "pending"

\* time passes a deadline
Elapse ==
    /\ ctx.soft # "none"
    /\ ctx.clock < PastHard
    /\ ctx' = [ctx EXCEPT !.clock = @ + 1]
    /\ UNCHANGED <<served, inv, bufferVars, loggers, transport, flushes, log, nCalls, lastCall,
                   enriched, run, nRejected>>

\* the event loop can run the callback of timeoutHandle
SoftDue ==
    /\ ctx.soft = "armed"
    /\ ctx.clock >= PastSoft
    /\ ~MicrotaskDue
    /\ ~ContinuationDue

\* mutant of SoftTimer: the callback does not abort the inner signal
SoftTimerNoAbort(c) == [c EXCEPT !.soft = "fired"]

\* mutant of SoftTimer: the soft timeout aborts the outer signal too
SoftTimerAbortsOuter(c) == [c EXCEPT !.soft = "fired", !.inner = TRUE, !.outer = TRUE]

\* the context after the callback of timeoutHandle: innerController.abort()
SoftTimer(c) == [c EXCEPT !.soft = "fired", !.inner = TRUE]

\* the callback of timeoutHandle (context.ts:134-139): logger.error('Timeout.'),
\* innerController.abort(), void logger.flush()
SoftTimeout ==
    /\ SoftDue
    /\ \E ret \in Rets(transport) :
         \E l \in {Facade(Logging, 1, "error", "Timeout.", "none", Undefined, ret)} :
            /\ loggers' = l.loggers
            /\ log' = l.log
            /\ Commit(FlushBody(l.w, ret))
    /\ run' = [ids |-> <<>>, clean |-> TRUE]
    /\ ctx' = SoftTimer(ctx)
    /\ UNCHANGED <<served, inv, transport, flushes, nCalls, lastCall, enriched, nRejected>>

\* the event loop can run the callback of flushHandle: the timer with the
\* longer delay fires after the one with the shorter delay
HardDue ==
    /\ ctx.hard = "armed"
    /\ ctx.soft # "armed"
    /\ ctx.clock = PastHard
    /\ ~MicrotaskDue
    /\ ~ContinuationDue

\* mutant of HardTimer: the callback logs but does not abort
HardTimerKeepsOuter(c) == [c EXCEPT !.hard = "fired"]

\* the context after the callback of flushHandle: outerController.abort()
HardTimer(c) == [c EXCEPT !.hard = "fired", !.outer = TRUE]

\* the callback of flushHandle (context.ts:140-143): logger.error('Aborting
\* flush.'), outerController.abort()
HardTimeout ==
    /\ HardDue
    /\ \E ret \in Rets(transport) :
         \E l \in {Facade(Logging, 1, "error", "Aborting flush.", "none", Undefined,
                          ret)} :
            CommitLogging(l)
    /\ ctx' = HardTimer(ctx)
    /\ UNCHANGED <<served, inv, transport, flushes, nCalls, lastCall, enriched, nRejected>>

\* the host calls the context's flush() (context.ts:148-152), which runs up to
\* its await: clearTimeout(timeoutHandle), logger.flush()
ContextFlush ==
    /\ ctx.done = "idle"
    /\ \E ret \in Rets(transport) :
         LET after == FlushBody(World, ret)
             p == FlushPromise(World, after)
         IN  /\ Commit(after)
             /\ flushes' = Append(flushes,
                    [st |-> p.st, awaits |-> p.awaits, upto |-> Len(after.chain),
                     queued |-> Queue, run |-> run.ids,
                     clean |-> run.clean /\ asyncTransport # "false",
                     idle |-> flusher = 0, nsent |-> Len(after.sent)])
    /\ run' = [ids |-> <<>>, clean |-> TRUE]
    /\ ctx' = [ctx EXCEPT !.soft = Cleared(@), !.done = "awaiting",
                          !.flush = Len(flushes) + 1, !.flushedAt = ctx.clock]
    /\ UNCHANGED <<served, inv, loggers, transport, log, nCalls, lastCall, enriched, nRejected>>

\* mutant of Continued: flush() ends without clearTimeout(flushHandle)
ContinuedKeepsHard(c, st, clock) ==
    IF st = "resolved"
    THEN [c EXCEPT !.done = "resolved", !.settledAt = clock]
    ELSE [c EXCEPT !.done = "rejected", !.settledAt = clock]

\* the context's flush() behind its await: clearTimeout(flushHandle) when
\* logger.flush() resolved; when it rejected the await throws and the
\* function ends there
Continued(c, st, clock) ==
    IF st = "resolved"
    THEN [c EXCEPT !.hard = Cleared(@), !.done = "resolved", !.settledAt = clock]
    ELSE [c EXCEPT !.done = "rejected", !.settledAt = clock]

\* the promise of logger.flush() has settled: the context's flush() goes on
ContextFlushContinues ==
    /\ ContinuationDue
    /\ ctx' = Continued(ctx, flushes[ctx.flush].st, ctx.clock)
    /\ UNCHANGED <<served, inv, bufferVars, loggers, transport, flushes, log, nCalls, lastCall,
                   enriched, run, nRejected>>

(***************************************************************************)
(* Specifications.                                                         *)
(***************************************************************************)
InitBuffer(kinds) ==
    /\ arrays = << <<>> >>
    /\ entries = 1
    /\ size = 0
    /\ flusher = 0
    /\ asyncTransport = "undefined"
    /\ timeout = 0
    /\ immediate = "none"
    /\ timers = <<>>
    /\ chain = <<>>
    /\ sent = <<>>
    /\ transport \in kinds
    /\ flushes = <<>>
    /\ log = <<>>
    /\ nCalls = 0
    /\ lastCall = [lg |-> 0, method |-> "", fields |-> Undefined, error |-> "none",
                   threw |-> FALSE]
    /\ enriched = <<>>
    /\ run = [ids |-> <<>>, clean |-> TRUE]
    /\ nRejected = 0
    /\ inv = NoInvocation
    /\ served = NoRequests

InitWith(levels, kinds) ==
    /\ loggers \in {<<RootLogger(l)>> : l \in levels}
    /\ InitBuffer(kinds)
    /\ ctx = NoContext

\* the steps of the event loop, the promises and the transport
Deliver ==
    \/ Probe
    \/ TimerFire
    \/ \E i \in DOMAIN chain : ChainStep(i)
    \/ \E i \in DOMAIN chain : TransportResolve(i)

\* an explicit flush() call, or the promise of one settles
Flushing ==
    \/ Flush
    \/ \E f \in DOMAIN flushes : FlushSettle(f)

\* the promises and the transport
Settle ==
    \/ \E i \in DOMAIN chain : ChainStep(i)
    \/ \E i \in DOMAIN chain : TransportResolve(i)

\* Spec: one logger without threshold, on a transport that is asynchronous or
\* synchronous and never rejects
Init == InitWith({""}, {"async", "sync"})

Next ==
    \/ \E message \in {"m", "M"} : LogCall(1, "info", message, Undefined, MaxCalls)
    \/ LogCall(1, "error", "m", Undefined, MaxCalls)
    \/ Flushing
    \/ Deliver

Spec == Init /\ [][Next]_vars

\* SpecLevel: one logger of every minimum level, called by every method
InitLevel == InitWith({"", "fatal", "error", "warning", "info", "debug", "trace"},
                      {"async"})

NextLevel ==
    \/ \E method \in Methods : LogCall(1, method, "m", Undefined, MaxFacadeCalls)
    \/ Deliver

SpecLevel == InitLevel /\ [][NextLevel]_vars

\* SpecEnrich: facades made by enrich and enrichReserved, logging with and
\* without per-call fields
InitEnrich == InitWith({""}, {"async"})

NextEnrich ==
    \/ \E lg \in DOMAIN loggers, fields \in {Undefined, Some([a |-> "3"])} :
         LogCall(lg, "info", "m", fields, MaxEnrichCalls)
    \/ \E lg \in DOMAIN loggers : Enrich(lg, [a |-> "1"])
    \/ \E lg \in DOMAIN loggers : EnrichReserved(lg, [a |-> "2"])
    \/ Probe

SpecEnrich == InitEnrich /\ [][NextEnrich]_vars

\* SpecBatch: a burst of log calls on an asynchronous transport, made within
\* the 2000 ms of the first idle timer, few of them with a long message
InitBatch == InitWith({""}, {"async"})

Long == {i \in DOMAIN log : log[i].message # "m"}

NextBatch ==
    \/ LogCall(1, "info", "m", Undefined, MaxBurst)
    \/ \E message \in {"M", "H"} :
         /\ Cardinality(Long) < MaxLong
         /\ LogCall(1, "info", message, Undefined, MaxBurst)
    \/ Probe
    \/ Settle

SpecBatch == InitBatch /\ [][NextBatch]_vars

\* SpecMode: one logger on a transport of each kind, also one whose sendEntries
\* returns a promise on some calls and nothing on others; it never rejects
InitMode == InitWith({""}, {"async", "sync", "mixed"})

NextMode ==
    \/ LogCall(1, "info", "m", Undefined, MaxCalls)
    \/ Flushing
    \/ Deliver

SpecMode == InitMode /\ [][NextMode]_vars

\* SpecReject: one logger on an asynchronous transport whose deliveries may
\* be rejected
InitReject == InitWith({""}, {"async"})

NextReject ==
    \/ \E method \in {"info", "error"} : LogCall(1, method, "m", Undefined, MaxCalls)
    \/ Flushing
    \/ Deliver
    \/ \E i \in DOMAIN chain : TransportReject(i)

SpecReject == InitReject /\ [][NextReject]_vars

\* SpecQuiesce: one logger on an asynchronous transport whose deliveries may
\* be rejected, in a process with the unhandledRejection handler installed
NextQuiesce ==
    \/ \E method \in {"info", "error"} : LogCall(1, method, "m", Undefined, MaxCalls)
    \/ Deliver
    \/ \E i \in DOMAIN chain : TransportReject(i)
    \/ UnhandledRejection

SpecQuiesce == InitReject /\ [][NextQuiesce]_vars

\* SpecError: one logger, called at error level with the error values of
\* ErrorNames, on a transport that is asynchronous or synchronous
InitError == InitWith({""}, {"async", "sync"})

NextError ==
    \/ \E name \in ErrorNames : LogError(1, "error", "m", name, MaxErrorCalls)
    \/ Probe
    \/ \E i \in DOMAIN chain : TransportResolve(i)

SpecError == InitError /\ [][NextError]_vars

\* SpecWrap: one invocation of a wrapper for an HTTP request, a timer or an
\* event, its handler returning or throwing the values of the catalogues, on
\* an asynchronous log transport
InitWrap == InitWith({""}, {"async"})

NextWrap ==
    \/ \E key \in ShallowKeys, xShallow \in XShallows, br \in BOOLEAN,
          ifNoneMatch \in {"", hash("b")} :
         Invoke("http", key, xShallow, ifNoneMatch, br, {"uri", "headers"}, FALSE)
    \/ \E kind \in {"timer", "event"} : Invoke(kind, "", "", "", FALSE, {}, FALSE)
    \/ \E name \in ResultNames : HandlerReturns(name)
    \/ \E name \in ThrownNames : HandlerThrows(name)
    \/ SuccessResolves
    \/ \E name \in ThrownNames : SuccessRejects(name)
    \/ Deliver

SpecWrap == InitWrap /\ [][NextWrap]_vars

\* the if-none-match headers of the requests: none, the ETag of the body 'b'
\* and the ETag of the body {"k":"b"}
IfNoneMatches ==
    {"", hash("b"),
     hash(NodeText(Node("object", "", << <<"k", Node("string", "b", <<>>)>> >>)))}

\* SpecServe: the requests a site answers one after the other through
\* executeRequest, its handler returning the results of the catalogue, some
\* of them with the headers object its module keeps, on a synchronous log
\* transport
NextServe ==
    \/ \E ifNoneMatch \in IfNoneMatches, br \in BOOLEAN :
         Invoke("http", "", "", ifNoneMatch, br, {"uri", "headers"}, FALSE)
    \/ \E name \in ServedNames : HandlerReturns(name)
    \/ SuccessResolves
    \/ Respond
    \/ Probe
    \/ TimerFire

InitServe == InitWith({""}, {"sync"})

SpecServe == InitServe /\ [][NextServe]_vars

\* SpecRequest: one invocation of executeRequest for a request without a
\* body, with a string body, a json body or both, the handler's configuration
\* setting excludeBodyFromLogs or not
NextRequest ==
    \/ \E key \in ShallowKeys, xShallow \in XShallows, exclude \in BOOLEAN,
          options \in Options :
         Invoke("http", key, xShallow, "", FALSE, options, exclude)
    \/ \E name \in {"nothing", "text", "notFound"} : HandlerReturns(name)
    \/ \E name \in {"error", "status", "statusBody"} : HandlerThrows(name)
    \/ SuccessResolves
    \/ SuccessRejects("error")
    \/ Deliver

SpecRequest == InitWrap /\ [][NextRequest]_vars

\* SpecIdle: one logger on a transport of each kind that never rejects, no
\* explicit flush() call; the event loop runs every callback that is due and
\* every delivery settles
NextIdle ==
    \/ \E method \in {"info", "error"} : LogCall(1, method, "m", Undefined, MaxCalls)
    \/ Deliver

SpecIdle == InitMode /\ [][NextIdle]_vars /\ WF_vars(Deliver)

\* SpecTimeout: a context made by createContext on an asynchronous transport
\* that may reject, one HTTP invocation with its logger, and the host's call
\* of flush() at any time.  The event loop is fair: time passes, due timers
\* and promise reactions run; the transport, the handler and the host need not
\* act.  The weak fairness of the two timer callbacks is written with their
\* guards, SoftDue and HardDue, which say when they are enabled.
InitTimeout ==
    /\ loggers = <<ContextLogger>>
    /\ InitBuffer({"async"})
    /\ ctx = NewContext

EventLoop ==
    \/ Elapse
    \/ ContextFlushContinues
    \/ Probe
    \/ TimerFire
    \/ \E i \in DOMAIN chain : ChainStep(i)
    \/ \E f \in DOMAIN flushes : FlushSettle(f)

NextTimeout ==
    \/ EventLoop
    \/ SoftTimeout
    \/ HardTimeout
    \/ ContextFlush
    \/ Invoke("http", "", "", "", FALSE, {"uri", "headers"}, FALSE)
    \/ HandlerReturns("text")
    \/ SuccessResolves
    \/ \E i \in DOMAIN chain : TransportResolve(i)
    \/ \E i \in DOMAIN chain : TransportReject(i)

TimersFair ==
    /\ []<>(~SoftDue) \/ []<><<SoftTimeout>>_vars
    /\ []<>(~HardDue) \/ []<><<HardTimeout>>_vars

SpecTimeout == InitTimeout /\ [][NextTimeout]_vars /\ WF_vars(EventLoop) /\ TimersFair

(***************************************************************************)
(* Properties of the buffer.                                               *)
(***************************************************************************)
Range(seq) == {seq[i] : i \in DOMAIN seq}

RECURSIVE Concat(_, _)
\* the batches of the first n sendEntries calls, one after the other
Concat(calls, n) == IF n = 0 THEN <<>> ELSE Concat(calls, n - 1) \o calls[n].batch

Delivered == Concat(sent, Len(sent))

\* a log call was accepted in this step: its entry is the last of log'
Accepted == Len(log') = Len(log) + 1

\* C1: on a transport that never rejects, the batches passed to sendEntries,
\* concatenated in call order, list the entries in the order they were
\* collected (entry ids count the collect calls): no entry is handed over
\* before an earlier one.
C1_DeliveredInCollectOrder ==
    \A k \in DOMAIN Delivered : Delivered[k] = k

\* C1 witness: three entries were delivered by three calls, one of them made by
\* a chained flush and one by the probe.
C1_Witness ==
    /\ Len(Delivered) = 3
    /\ Len(sent) = 3
    /\ \E i \in DOMAIN sent : sent[i].via = "chain"
    /\ \E i \in DOMAIN sent : sent[i].via = "probe"

\* C2 (as claimed): a resolved explicit flush() means that every delivery of the
\* pipeline as it was when flush() was called has settled.
C2_ResolvedFlushMeansPipelineSettled ==
    \A f \in DOMAIN flushes :
        flushes[f].st = "resolved" =>
            \A i \in 1..flushes[f].upto : Settled(chain[i].st)

\* the sum of the serialized lengths of the entries ids
RECURSIVE Bytes(_)
Bytes(ids) == IF ids = <<>> THEN 0 ELSE log[Head(ids)].length + Bytes(Tail(ids))

\* a non-empty sequence of collects below the batching thresholds
BelowThresholds(ids) ==
    /\ ids # <<>>
    /\ Len(ids) < MaxQueuedEntries
    /\ Bytes(ids) < MaxQueuedSize
    /\ \A k \in DOMAIN ids : log[ids[k]].lvl >= UrgentLevel

\* the entries collected before flush() f, since the flush() before it, were
\* passed to sendEntries in no other way than all together, in one call
InOneCall(f) ==
    /\ \A i \in DOMAIN sent :
           Range(sent[i].batch) \cap Range(flushes[f].run) # {} =>
               sent[i].batch = flushes[f].run
    /\ Cardinality({i \in DOMAIN sent : sent[i].batch = flushes[f].run}) <= 1

\* flush() f took exactly these entries as its batch, and handed it over at
\* once when no delivery was pending
TakenByFlush(f) ==
    /\ flushes[f].queued = flushes[f].run
    /\ flushes[f].idle => sent[flushes[f].nsent].batch = flushes[f].run

\* C3 (as claimed): every sequence of collects below the thresholds followed by
\* a flush() reaches the transport in its order in a single sendEntries call.
C3_EveryRunInOneCall ==
    \A f \in DOMAIN flushes : BelowThresholds(flushes[f].run) => InOneCall(f)

\* C3 (amended): when the buffer is not in synchronous mode and neither the
\* probe nor an idle timer ran between the first of these collects and the
\* flush(), the flush() takes exactly these entries, in their order, as one
\* batch, which reaches the transport in a single sendEntries call.
C3_UndisturbedRunInOneBatch ==
    \A f \in DOMAIN flushes :
        (BelowThresholds(flushes[f].run) /\ flushes[f].clean) =>
            (InOneCall(f) /\ TakenByFlush(f))

\* C3 witness: a flush() took an undisturbed run of two entries, chained behind
\* a pending delivery, and the batch has since been passed to sendEntries.
C3_Witness ==
    \E f \in DOMAIN flushes :
        /\ BelowThresholds(flushes[f].run)
        /\ flushes[f].clean
        /\ Len(flushes[f].run) = 2
        /\ ~flushes[f].idle
        /\ \E i \in DOMAIN sent : sent[i].batch = flushes[f].run

\* C4: no entry is in two batches passed to sendEntries (nor twice in one), and
\* the array of every call still holds what it held when it was handed over.
C4_BatchesDisjointAndFrozen ==
    /\ \A i, j \in DOMAIN sent :
           i # j => Range(sent[i].batch) \cap Range(sent[j].batch) = {}
    /\ \A i \in DOMAIN sent :
           /\ Cardinality(Range(sent[i].batch)) = Len(sent[i].batch)
           /\ arrays[sent[i].arr] = sent[i].batch

\* C4 witness: batches went out by a flush and by a chained flush, and
\* an entry was collected after them.
C4_Witness ==
    /\ \E i \in DOMAIN sent : sent[i].via = "flush" /\ sent[i].batch # <<>>
    /\ \E i \in DOMAIN sent : sent[i].via = "chain" /\ sent[i].batch # <<>>
    /\ Queue # <<>>

\* C4 witness of the synchronous path: entries left by the probe and by a
\* synchronous-mode send.
C4_WitnessSync ==
    /\ \E i \in DOMAIN sent : sent[i].via = "probe" /\ sent[i].batch # <<>>
    /\ \E i \in DOMAIN sent : sent[i].via = "sync"

\* the entry of the log call of this step has left the queue: it is in a batch
\* passed to sendEntries or in one chained behind the pending delivery
HandedOver ==
    /\ arrays'[entries'] = <<>>
    /\ \/ \E i \in DOMAIN sent' : Len(log') \in Range(sent'[i].batch)
       \/ \E i \in DOMAIN chain' :
              /\ chain'[i].st = "waiting"
              /\ Len(log') \in Range(arrays'[chain'[i].arr])

\* an error or fatal entry is collected in this step, on an asynchronous transport
UrgentCollect ==
    /\ Accepted
    /\ transport = "async"
    /\ log'[Len(log')].lvl < UrgentLevel

\* C8 (as claimed): every error or fatal entry, the first of the buffer
\* included, is flushed before the log call returns.
C8_EveryUrgentEntryFlushed ==
    [][UrgentCollect => HandedOver]_vars

\* C8 (amended): every error or fatal entry but the first entry collected on
\* the buffer is flushed before the log call returns.
C8_UrgentEntryAfterFirstFlushed ==
    [][(UrgentCollect /\ log # <<>>) => HandedOver]_vars

\* C8 witness: an error entry that was not the first entry sits in a batch
\* chained behind a pending delivery.
C8_Witness ==
    /\ transport = "async"
    /\ \E i \in DOMAIN chain :
           /\ chain[i].st = "waiting"
           /\ \E id \in Range(arrays[chain[i].arr]) :
                  id > 1 /\ log[id].lvl < UrgentLevel

\* the entry of the log call of this step was passed to sendEntries, alone,
\* by this step
SentAlone ==
    /\ Len(sent') = Len(sent) + 1
    /\ sent'[Len(sent')].batch = <<Len(log')>>
    /\ arrays'[entries'] = <<>>

\* C10 (as claimed): on a synchronous transport every accepted entry is passed
\* to sendEntries alone before the log call returns.
C10_SyncTransportSendsEachAlone ==
    [][(Accepted /\ transport = "sync") => SentAlone]_vars

\* C10 (amended): once the probe has found the transport synchronous
\* (#asyncTransport is false), every accepted entry is passed to sendEntries
\* alone before the log call returns.
C10_SyncModeSendsEachAlone ==
    [][(Accepted /\ asyncTransport = "false") => SentAlone]_vars

\* C10 witness: two entries went out alone in synchronous mode.
C10_Witness ==
    /\ asyncTransport = "false"
    /\ Cardinality({i \in DOMAIN sent : sent[i].via = "sync"}) = 2

(***************************************************************************)
(* Properties of the facade.                                               *)
(***************************************************************************)

\* a log method was called in this step
Called == nCalls' = nCalls + 1

\* C5: a log call whose numeric level is above the logger's minimum level
\* changes nothing of the buffer, the timers, the probe, the promises and the
\* transport and adds no entry; a fatal call is accepted under every level and
\* its entry is queued.
C5_FilteredCallIsNoOp ==
    [][/\ (Called /\ NumericLevel(lastCall'.method) > loggers[lastCall'.lg].level)
           => UNCHANGED <<bufferVars, log>>
       /\ (Called /\ lastCall'.method = "fatal")
           => (Accepted /\ log'[Len(log')].lvl = 0
                        /\ Len(log') \in Range(arrays'[entries]))]_vars
           \* arrays'[entries]: the array that was the queue when the call was made

\* C5 witness: under the minimum level fatal a fatal call was accepted and
\* another call was dropped, with the probe already scheduled.
C5_Witness ==
    /\ loggers[1].level = 0
    /\ nCalls = 2
    /\ Len(log) = 1
    /\ log[1].lvl = 0
    /\ lastCall.method # "fatal"
    /\ immediate = "scheduled"

\* the line logger settings l give entry x
LineOf(x, l) == Line(x.level, x.message, x.fields, l.reserved, l.custom)

C7_EnrichChangesTheLogger ==
    \A e \in DOMAIN enriched :
        ~enriched[e].reserved =>
            \A x \in DOMAIN log :
                (log[x].lg = enriched[e].lg /\ x > enriched[e].at) =>
                    \A k \in DOMAIN enriched[e].fields :
                        k \in DOMAIN log[x].json

(***************************************************************************)
(* Properties of the batching thresholds.                                  *)
(***************************************************************************)

\* C9 (as claimed): in asynchronous batching mode, decided by the probe, the
\* queue holds fewer than 8 entries and fewer than 64,000 bytes.
C9_QueueBelowEightAnd64000 ==
    (asyncTransport = "true" /\ immediate = "done") =>
        (Len(Queue) < MaxQueuedEntries /\ size < MaxQueuedSize)

\* C9 (amended): the flush is triggered once more than 8 entries are queued or
\* the queued size exceeds 64,000 bytes: the queue holds at most 8 entries
\* and at most 64,000 bytes, #size being the bytes of the queued entries;
\* only the first entry of the buffer, which waits for the probe, may be larger.
C9_QueueAtMostEightAnd64000 ==
    /\ size = Bytes(Queue)
    /\ \/ Len(Queue) <= MaxQueuedEntries /\ size <= MaxQueuedSize
       \/ Len(log) = 1 /\ Queue = <<1>> /\ immediate = "scheduled"

\* the boundary of the size threshold: two entries of 32,000 bytes are queued
\* in batching mode
C9_WitnessSize ==
    /\ asyncTransport = "true"
    /\ immediate = "done"
    /\ size = MaxQueuedSize
    /\ Len(Queue) = 2

\* C9 witness: in batching mode a ninth queued entry has triggered the flush
\* of a batch of nine, which left the queue empty.
C9_Witness ==
    /\ asyncTransport = "true"
    /\ \E i \in DOMAIN sent : Len(sent[i].batch) = MaxQueuedEntries + 1
    /\ Queue = <<>>

(***************************************************************************)
(* Properties of the delivery mode.                                        *)
(***************************************************************************)

\* the sendEntries calls the probe made
ProbeCalls == {i \in DOMAIN sent : sent[i].via = "probe"}

\* the buffer is in synchronous mode
SyncMode == asyncTransport = "false"

\* C11 (as claimed): once the probe has run, the buffer is in synchronous mode
\* exactly when the first sendEntries call made on it, by the probe or by a
\* flush() before the probe, returned nothing.
C11_ModeOfFirstCall ==
    (immediate = "done" /\ sent # <<>>) => (SyncMode <=> sent[1].ret = "void")

\* C11 (amended): the mode is decided by the probe alone.  The probe calls
\* sendEntries at most once, and the buffer is in synchronous mode exactly when
\* that call was made and returned nothing; a flush() before the probe leaves
\* the mode asynchronous whatever its call returned.  On a transport whose
\* calls so far all returned the same kind, the mode after the probe is that of
\* the first call.
C11_ModeDecidedByProbe ==
    /\ Cardinality(ProbeCalls) <= 1
    /\ immediate # "done" => ProbeCalls = {}
    /\ SyncMode <=> \E i \in ProbeCalls : sent[i].ret = "void"
    /\ asyncTransport = "undefined" <=> log = <<>>
    /\ (immediate = "done" /\ \A i, j \in DOMAIN sent : sent[i].ret = sent[j].ret)
           => (sent # <<>> /\ (SyncMode <=> sent[1].ret = "void"))

\* C11 witness: the first call, made by a flush() before the probe, returned
\* nothing; the probe's call returned a promise and the mode stayed
\* asynchronous, also after a later call that returned nothing.
C11_Witness ==
    /\ Len(sent) = 3
    /\ sent[1].via = "flush" /\ sent[1].ret = "void"
    /\ sent[2].via = "probe" /\ sent[2].ret = "promise"
    /\ sent[3].ret = "void"
    /\ asyncTransport = "true"

(***************************************************************************)
(* Properties of failed deliveries.                                        *)
(***************************************************************************)

\* the sendEntries calls that were passed an entry of chain[i]'s batch
CallsWith(i) ==
    {j \in DOMAIN sent : Range(sent[j].batch) \cap Range(arrays[chain[i].arr]) # {}}

\* the transport rejected the promise it returned for chain[i]'s batch
Failed(i) == chain[i].st = "rejected" /\ CallsWith(i) # {}

\* C12: when the delivery a flush() awaits is rejected, that flush() does not
\* resolve: it settles as rejected (and a flush() is rejected for no other
\* reason); the entries of a batch whose delivery was rejected are passed to
\* sendEntries in that one call only.
C12_FailedDeliveryReportedNotRetried ==
    /\ \A f \in DOMAIN flushes :
           /\ (flushes[f].awaits # 0 /\ chain[flushes[f].awaits].st = "rejected")
                  => flushes[f].st \in {"pending", "rejected"}
           /\ flushes[f].st = "rejected"
                  => (flushes[f].awaits # 0 /\ chain[flushes[f].awaits].st = "rejected")
    /\ \A i \in DOMAIN chain :
           chain[i].st = "rejected" => Cardinality(CallsWith(i)) <= 1

\* C12 witness: the transport rejected the delivery a flush() awaited, the
\* flush() is rejected, and an entry collected afterwards was taken by a
\* later flush.
C12_Witness ==
    \E f \in DOMAIN flushes :
        /\ flushes[f].st = "rejected"
        /\ Failed(flushes[f].awaits)
        /\ Len(chain) > flushes[f].awaits
        /\ Queue = <<>>

(***************************************************************************)
(* Properties of the serialized error.                                     *)
(***************************************************************************)

\* the error values of the catalogue that hold a reference cycle
CyclicErrors == {"cyclic", "cyclicCause", "selfCause"}

\* the member `key` of an object node of a document
MemberOf(node, key) ==
    IF \E i \in DOMAIN node.kv : node.kv[i][1] = key
    THEN node.kv[CHOOSE i \in DOMAIN node.kv : node.kv[i][1] = key][2]
    ELSE Node("undefined", "", <<>>)

\* the message V8 gives the TypeError of a circular structure
CircularMessage == "Converting circular structure to JSON"

\* C13 (as claimed, and as src/test/logging.ts:97-123 expects): a log call
\* given an error that holds a reference cycle does not throw, and its entry
\* is collected, with the circular-structure message as the error's message.
C13_CyclicErrorIsLogged ==
    (nCalls > 0 /\ lastCall.error \in CyclicErrors) =>
        /\ ~lastCall.threw
        /\ log # <<>>
        /\ log[Len(log)].errorOf = lastCall.error
        /\ MemberOf(log[Len(log)].error[1], "message").s = CircularMessage

\* the node is the object errorAsJson makes of the Error heap[id]: its
\* message and its name
Normalized(node, heap, id) ==
    /\ node.t = "object"
    /\ MemberOf(node, "message") = Node("string", Get(heap[id], "message").s, <<>>)
    /\ MemberOf(node, "name") = Node("string", Get(heap[id], "name").s, <<>>)

\* the node is an array of the normalized errors heap[ids[1]], heap[ids[2]], ..
NormalizedList(node, heap, ids) ==
    /\ node.t = "array"
    /\ Len(node.kv) = Len(ids)
    /\ \A k \in DOMAIN ids : Normalized(node.kv[k][2], heap, ids[k])

\* C14 (as claimed, and as src/test/logging.ts:19-95 expects): a logged array
\* of errors is serialized as an array of normalized errors, in order; an
\* aggregate error keeps its errors as such an array, an error with a cause
\* keeps the cause, normalized.
C14_NestedErrorsNormalized ==
    \A i \in DOMAIN log :
        LET heap == ErrorValue(log[i].errorOf).heap
            node == log[i].error[1]
        IN  /\ log[i].errorOf = "list" => NormalizedList(node, heap, <<2, 3>>)
            /\ log[i].errorOf = "aggregate" =>
                   /\ Normalized(node, heap, 1)
                   /\ NormalizedList(MemberOf(node, "errors"), heap, <<3, 4>>)
            /\ log[i].errorOf \in {"cause", "assignedCause"} =>
                   /\ Normalized(node, heap, 1)
                   /\ Normalized(MemberOf(node, "cause"), heap, 2)

(***************************************************************************)
(* Properties of the merge of fields and enrichment.                       *)
(***************************************************************************)

\* the three sources of entry x: the fields of the call, the custom and the
\* reserved enrichment of the logger that made it
FieldsOf(x) == Spread(log[x].fields)
CustomOf(x) == Spread(loggers[log[x].lg].custom)
ReservedOf(x) == Spread(loggers[log[x].lg].reserved)

\* the keys collect itself writes
OwnKeys == {"timestamp", "level", "message"}

\* C15: the line of every entry has exactly the keys of its three sources
\* besides its own, and each such key has the value of the per-call fields if
\* they set it, else that of the custom enrichment if that sets it, else that
\* of the reserved enrichment.
C15_FieldsOverCustomOverReserved ==
    \A x \in DOMAIN log :
        /\ DOMAIN log[x].json
               = OwnKeys \cup DOMAIN FieldsOf(x) \cup DOMAIN CustomOf(x)
                         \cup DOMAIN ReservedOf(x)
        /\ \A k \in DOMAIN log[x].json \ OwnKeys :
               log[x].json[k] =
                   IF k \in DOMAIN FieldsOf(x) THEN FieldsOf(x)[k]
                   ELSE IF k \in DOMAIN CustomOf(x) THEN CustomOf(x)[k]
                   ELSE ReservedOf(x)[k]

\* C15 witness: a logger with the key in its reserved and in its custom
\* enrichment logged one line with the key in the fields, which has the
\* fields' value, and one without, which has the custom value.
C15_Witness ==
    \E x, y \in DOMAIN log :
        /\ log[x].lg = log[y].lg
        /\ "a" \in DOMAIN CustomOf(x) \cap DOMAIN ReservedOf(x)
        /\ "a" \in DOMAIN FieldsOf(x)
        /\ log[x].json["a"] = "3"
        /\ log[y].fields = Undefined
        /\ log[y].json["a"] = "1"

\* entry x has key k both from enrichReserved and from the fields of its call
ReservedAndFields(x, k) == k \in DOMAIN ReservedOf(x) \cap DOMAIN FieldsOf(x)

\* C16 (as claimed): a key set both by enrichReserved and in the fields of the
\* log call has the reserved value in the line.
C16_ReservedOverFields ==
    \A x \in DOMAIN log :
        \A k \in DOMAIN log[x].json :
            ReservedAndFields(x, k) => log[x].json[k] = ReservedOf(x)[k]

\* C16 (amended): a key set both by enrichReserved and in the fields of the
\* log call has the value of the fields in the line: the caller's field
\* shadows the reserved one.
C16_FieldsShadowReserved ==
    \A x \in DOMAIN log :
        \A k \in DOMAIN FieldsOf(x) :
            ReservedAndFields(x, k) =>
                (k \in DOMAIN log[x].json /\ log[x].json[k] = FieldsOf(x)[k])

\* C16 witness: a logger made by enrichReserved alone logged a line with the
\* same key in the fields; the line has the value of the fields.
C16_Witness ==
    \E x \in DOMAIN log :
        /\ ReservedAndFields(x, "a")
        /\ loggers[log[x].lg].custom = Undefined
        /\ ReservedOf(x)["a"] = "2"
        /\ log[x].json["a"] = "3"

(***************************************************************************)
(* Claims about the invocation wrappers, under SpecWrap.                   *)
(***************************************************************************)

\* the wrapper has called success(): the callbacks have been invoked
SuccessRan == inv.ran > 0

\* the wrapper has returned a response to the host
Emitted == inv.kind = "http" /\ inv.pc = "done" /\ inv.response # Undefined

\* the timer and event part of C17: the callbacks are invoked exactly when the
\* handler returned without throwing
TriggerSuccess ==
    (inv.kind \in {"timer", "event"} /\ inv.handler # "pending") =>
        (inv.ran = 1 <=> inv.handler = "returned")

\* C17 (as claimed): the success callbacks run at most once per invocation;
\* for HTTP only when the handler returned without throwing and the emitted
\* response has a non-error status; for timer and event exactly when the
\* handler returned without throwing.
C17_SuccessOnlyWithNonErrorResponse ==
    /\ inv.ran <= 1
    /\ (Emitted /\ SuccessRan) =>
          (inv.handler = "returned" /\ inv.response[1].status.n < 400)
    /\ TriggerSuccess

\* C17 (amended): the success callbacks are invoked at most once per
\* invocation; for HTTP exactly when the handler returned without throwing and
\* the response converted from its result has a status below 300, whatever
\* response is emitted after them; for timer and event exactly when the
\* handler returned without throwing.
C17_SuccessGatedByConvertedStatus ==
    /\ inv.ran <= 1
    /\ inv.handler = "pending" => inv.ran = 0
    /\ (inv.kind = "http" /\ inv.handler # "pending") =>
          (inv.ran = 1 <=> /\ inv.handler = "returned"
                           /\ inv.converted # Undefined
                           /\ inv.converted[1].status.n < 300)
    /\ TriggerSuccess

\* C17 witness: an HTTP handler returned a result converted to a status below
\* 300, the callbacks were invoked once and one of them threw, and the
\* response emitted is an error response.
C17_Witness ==
    /\ Emitted
    /\ inv.ran = 1
    /\ inv.handler = "returned"
    /\ inv.converted[1].status.n < 300
    /\ inv.failed
    /\ inv.response[1].status.n >= 400

\* the wrapper has ended after its handler threw
HandlerFailed == inv.pc = "done" /\ inv.handler = "threw"

\* a response with a numeric status, headers and possibly a body
WellFormed(response) ==
    /\ response # Undefined
    /\ response[1].status.t = "number"
    /\ DOMAIN response[1] = {"status", "headers", "body"}

\* C18 (as claimed): a handler failure never escapes the wrapper: whatever the
\* entry function throws, executeRequest resolves with a well-formed response
\* and triggerTimer and handle resolve.
C18_HandlerFailureNeverEscapes ==
    HandlerFailed =>
        /\ inv.outcome = "resolved"
        /\ inv.kind = "http" => WellFormed(inv.response)

\* entry x is the error-level END line of the invocation with the thrown value
ErrorEnd(x) ==
    /\ log[x].level = "error"
    /\ log[x].message = End(inv.kind)
    /\ log[x].errorOf = inv.value

\* C19 (as claimed): whenever the handler throws, the wrapper logs an
\* error-level END line that carries the thrown value, for HTTP also when the
\* conversion of the thrown value into a response fails.
C19_ThrowLogsErrorEnd ==
    HandlerFailed => \E x \in DOMAIN log : ErrorEnd(x)

\* entry x is the further error line of executeRequest's inner catch
ConvertErrorLine(x) ==
    /\ log[x].level = "error"
    /\ log[x].message = "Could not convert exception to error response."

\* the bare response of executeRequest's inner catch
Bare500 == Some(Response(JsNumber(500), EmptyObj, Undefined))

\* C20 (as claimed): when an HTTP handler throws, the response status is the
\* thrown value's statusCode if present and 500 otherwise; if the conversion of
\* the thrown value itself throws, a further error line is logged and the
\* response is exactly status 500 with empty headers and no body.
C20_ThrownValueDecidesStatus ==
    (HandlerFailed /\ inv.kind = "http") =>
        LET e == ErrorValue(inv.value)
        IN  IF errorToResponse(e.heap, e.root).thrown
            THEN /\ inv.response = Bare500
                 /\ \E x \in DOMAIN log : ConvertErrorLine(x)
            ELSE /\ inv.response # Undefined
                 /\ inv.response[1].status =
                        Coalesce(Member(e.heap, e.root, "statusCode"), JsNumber(500))

\* the measurement lines of the log
Measurements ==
    {x \in DOMAIN log : /\ log[x].message = "Measurement of execution time"
                        /\ log[x].level = "trace"}

\* the END lines of the invocation
Ends == {x \in DOMAIN log : log[x].message = End(inv.kind)}

\* C21: for every handler invocation, whether the handler returns or throws,
\* exactly one trace-level measurement line is logged, after the handler
\* settled (none while it is pending) and before the END line of the
\* invocation.
C21_OneMeasurementBeforeEnd ==
    /\ inv.handler = "pending" => Measurements = {}
    /\ inv.handler # "pending" =>
          /\ Cardinality(Measurements) = 1
          /\ \A x \in Measurements : \A y \in Ends : x < y

\* C21 witness: a handler threw, and the log has the measurement line and an
\* error-level END line after it.
C21_Witness ==
    /\ inv.handler = "threw"
    /\ inv.pc = "done"
    /\ \E x \in Measurements : \E y \in Ends : x < y /\ log[y].level = "error"

(***************************************************************************)
(* Claims about the context's timers, under SpecTimeout.                   *)
(***************************************************************************)

\* the error-level lines with this message
ErrorLines(message) ==
    {x \in DOMAIN log : log[x].message = message /\ log[x].level = "error"}

\* the soft timeout has happened: one "Timeout." line, the inner signal aborted
TimedOut == Cardinality(ErrorLines("Timeout.")) = 1 /\ ctx.inner

\* C22: if the context's flush() is not called, then once the soft deadline
\* has passed exactly one error-level "Timeout." line is logged and the inner
\* signal is aborted and stays aborted; before that there is no such line and
\* the signal is not aborted; the callback leaves the invocation and its
\* handler as they are.
C22_SoftTimeoutLogsOnceAndAbortsInner ==
    /\ [](IF ctx.soft = "fired" THEN TimedOut
          ELSE ErrorLines("Timeout.") = {} /\ ~ctx.inner)
    /\ [][(ctx.inner => ctx'.inner)
          /\ (ctx.soft # ctx'.soft => inv' = inv)]_vars
    /\ (<>(ctx.done # "idle") \/ <>(ctx.clock >= PastSoft /\ TimedOut))

\* C22 witness: the soft timer has fired while the handler was running and
\* flush() had not been called; the handler has returned afterwards, and its
\* response has the x-timeout header.
C22_Witness ==
    /\ TimedOut
    /\ ctx.done = "idle"
    /\ inv.handler = "returned"
    /\ inv.converted # Undefined
    /\ "x-timeout" \in DOMAIN inv.converted[1].headers

\* C23: the outer signal is aborted only by the callback of the hard timer,
\* which runs past the hard deadline and after the soft timer has fired or was
\* cleared, and which logs the error-level "Aborting flush." line; the soft
\* timeout alone leaves the outer signal as it is.
C23_OuterAbortedOnlyByHardTimer ==
    /\ [](ctx.outer <=> ctx.hard = "fired")
    /\ [](ctx.hard = "fired" =>
            /\ ctx.clock = PastHard
            /\ Cardinality(ErrorLines("Aborting flush.")) = 1)
    /\ [](ctx.hard # "fired" => ErrorLines("Aborting flush.") = {})
    /\ [][ctx.outer # ctx'.outer => ctx.soft # "armed" /\ ctx'.soft = ctx.soft]_vars

\* C23 witness: the soft timer fired and left the outer signal alone with a
\* delivery in flight (the "Timeout." line was sent); later the hard timer
\* fired, logged its line after the "Timeout." line and aborted the outer
\* signal.
C23_Witness ==
    /\ ctx.soft = "fired"
    /\ ctx.hard = "fired"
    /\ ctx.outer
    /\ \E x \in ErrorLines("Timeout.") : \E y \in ErrorLines("Aborting flush.") :
          /\ x < y
          /\ \E c \in DOMAIN sent : x \in Range(sent[c].batch)

\* the context's flush() was called before the soft deadline and the promise
\* of its logger.flush() has settled before the hard deadline
CompletedInTime ==
    /\ ctx.done \in {"resolved", "rejected"}
    /\ ctx.flushedAt = BeforeSoft
    /\ ctx.settledAt < PastHard

\* neither timer has fired: no line of theirs, no signal aborted
NoTimerFired ==
    /\ ctx.soft # "fired"
    /\ ctx.hard # "fired"
    /\ ErrorLines("Timeout.") = {}
    /\ ErrorLines("Aborting flush.") = {}
    /\ ~ctx.inner
    /\ ~ctx.outer

\* C24 (as claimed): if the context's flush() is called before the soft
\* deadline and the final log flush settles, resolved or rejected, before the
\* hard deadline, then neither timer fires afterwards: no "Timeout." or
\* "Aborting flush." line is logged and neither signal is aborted.
C24_CompletionDisarmsBothTimers ==
    CompletedInTime => NoTimerFired

\* the part of C24 that holds: when the final log flush has resolved
C24_ResolvedFlushDisarmsBothTimers ==
    (CompletedInTime /\ ctx.done = "resolved") =>
        (NoTimerFired /\ ctx.soft = "cleared" /\ ctx.hard = "cleared")

(***************************************************************************)
(* Properties of the response executeRequest makes of a handler's result.  *)
(***************************************************************************)

\* the handler of the invocation has returned and its result was converted
Converts == inv.kind = "http" /\ inv.handler = "returned" /\ inv.converted # Undefined
            /\ ~inv.failed

\* the content-type a result of the catalogue declares, "" when it declares none
Declared(v) ==
    LET headers == Member(v.heap, v.root, "headers")
    IN  IF headers.t = "object" /\ HasOwn(v.heap[headers.id], "content-type")
        THEN Get(v.heap[headers.id], "content-type").s
        ELSE ""

\* the content-type the kind of a body stands for
Inferred(heap, body) ==
    IF body.t = "string" THEN "text/plain"
    ELSE IF body.t = "object" /\ heap[body.id].class = "Buffer"
    THEN "application/octet-stream"
    ELSE "application/json"

\* the response the result v is to be given, by its kind
MappedByKind(v, response) ==
    LET body == Member(v.heap, v.root, "body")
        status == Member(v.heap, v.root, "status")
    IN  CASE v.root.t = "undefined" -> response.status.n = 204
          [] v.root.t = "string" ->
               /\ response.status.n = 200
               /\ "content-type" \in DOMAIN response.headers
               /\ response.headers["content-type"] = "text/plain"
          [] OTHER ->
               /\ response.status.n = (IF status.t = "number" THEN status.n ELSE 200)
               /\ body.t # "undefined" =>
                    /\ "content-type" \in DOMAIN response.headers
                    /\ response.headers["content-type"] =
                         (IF Declared(v) # "" THEN Declared(v) ELSE Inferred(v.heap, body))

\* C25: every handler result is mapped by its kind: no result gives 204, a
\* string (the empty string included) gives 200 with content-type text/plain,
\* an object gives its declared status or 200 with the content-type its body
\* stands for (text/plain, application/octet-stream, application/json) unless
\* the handler declared one.
C25_ResultMappedByKind ==
    Converts => MappedByKind(ResultValue(inv.value), inv.converted[1])

\* C25, the cases the code maps as stated: every result but the empty string,
\* its headers object being one no earlier response was made of
C25_MappedUnlessEmptyOrShared ==
    (Converts /\ inv.value \notin {"empty"} \cup SharedNames)
        => MappedByKind(ResultValue(inv.value), inv.converted[1])

\* an answered request whose response was successful, had a body and no etag
\* set by the handler
Tagging(a) ==
    LET v == ResultValue(a.value)
        headers == Member(v.heap, v.root, "headers")
    IN  /\ a.kind = "http" /\ a.handler = "returned" /\ ~a.failed
        /\ a.converted # Undefined
        /\ a.converted[1].status.n < 300
        /\ a.converted[1].body # Undefined
        /\ BodyLength(a.converted[1].body) > 0
        /\ ~(headers.t = "object" /\ HasOwn(v.heap[headers.id], "etag"))

\* the ETag of the body the handler returned
ETagOf(a) == hash(BodyBytes(a.converted[1].body))

\* the answer a carries the ETag of its body, is a bare 304 when the request's
\* if-none-match is that ETag and has the status and the body of the result
\* when it is not
TaggedByBody(a) ==
    /\ "etag" \in DOMAIN a.response[1].headers
    /\ a.response[1].headers["etag"] = ETagOf(a)
    /\ a.ifNoneMatch = ETagOf(a) =>
         a.response[1].status.n = 304 /\ a.response[1].body = Undefined
    /\ a.ifNoneMatch # ETagOf(a) =>
         /\ a.response[1].status = a.converted[1].status
         /\ a.response[1].body # Undefined
         /\ "content-encoding" \notin DOMAIN a.response[1].headers
              => a.response[1].body = a.converted[1].body

\* C26: a successful response with a body and no handler-set etag carries an
\* ETag that is a function of the body only; a request whose if-none-match
\* is that ETag gets 304 without a body and with the ETag, every other
\* request gets the status and the body of the result.
C26_ETagIsOfBodyOnly ==
    \A n \in DOMAIN served.history :
       Tagging(served.history[n]) => TaggedByBody(served.history[n])

\* C26, for the results whose headers object no earlier response was made of
C26_ETagOfFreshHeaders ==
    \A n \in DOMAIN served.history :
       (Tagging(served.history[n]) /\ served.history[n].value \notin SharedNames)
           => TaggedByBody(served.history[n])

(***************************************************************************)
(* Properties of the request enrichment.                                   *)
(***************************************************************************)

\* the lines logged with a request enrichment that holds a body of the request
WithRequestBody ==
    {n \in DOMAIN log : "request" \in DOMAIN log[n].json /\ log[n].json["request"] # "q"}

\* C27: when the handler's configuration sets excludeBodyFromLogs, no line
\* the wrapper logs for the invocation (BEGIN, END, measurement) has the
\* request's string body or json body in its request enrichment.
C27_ExcludedBodyNeverLogged ==
    inv.exclude => WithRequestBody = {}

\* C27, for the requests that have a string body or a json body, not both
C27_ExcludedOneBodyNeverLogged ==
    (inv.exclude /\ ~({"body", "json"} \subseteq inv.options)) => WithRequestBody = {}

(***************************************************************************)
(* Properties of the idle timers and of the deliveries in flight.          *)
(***************************************************************************)

\* an explicit flush() call was made in this step and has returned its promise
FlushCalled == Len(flushes') = Len(flushes) + 1

\* C28: when an explicit flush() call has returned its promise no idle timer
\* of the buffer is pending, whatever collects, probe run and automatic
\* flushes came before, also when the call found the queue empty.
C28_FlushLeavesNoIdleTimer ==
    [][FlushCalled => timers' = <<>>]_vars

\* C28, what the call does cancel: the timer of the last collect, when the
\* queue was not empty
C28_FlushClearsLastTimer ==
    [][(FlushCalled /\ Queue # <<>>) => (timeout' = 0 /\ timeout \notin Range(timers'))]_vars

\* the deliveries in flight: sendEntries was called and its promise is pending
InFlight == {i \in DOMAIN chain : chain[i].st = "inflight"}

\* sendEntries was called in this step
Sending == Len(sent') > Len(sent)

\* C29: with an asynchronous transport at most one delivery is in flight at
\* a time: sendEntries is called for a batch only when the promise returned
\* for the batch before it has settled, whether the call comes from the probe,
\* a triggered flush, an idle timer or an explicit flush.
C29_OneDeliveryInFlight ==
    /\ [](Cardinality(InFlight) <= 1)
    /\ [][Sending => (InFlight = {} /\ Len(sent') = Len(sent) + 1)]_vars

\* a delivery is in flight, made after another one, and a batch waits behind it
C29_Witness ==
    /\ Len(sent) >= 2
    /\ Cardinality(InFlight) = 1
    /\ \E i \in DOMAIN chain : chain[i].st = "waiting"

(***************************************************************************)
(* Properties of the probe.                                                *)
(***************************************************************************)

\* the probe was scheduled in this step (setImmediate was called)
ProbeScheduled == immediate' = "scheduled" /\ immediate # "scheduled"

\* the probe ran in this step
ProbeRan == immediate = "scheduled" /\ immediate' = "done"

\* C30: the probe is scheduled by the first accepted collect and by no other,
\* and runs at most once; after it has run the mode never changes, and a mode
\* that is synchronous stays synchronous: every later collect sends its entry
\* at once.
C30_ProbeOnceModeForGood ==
    /\ [][(Accepted /\ log = <<>>) <=> ProbeScheduled]_vars
    /\ [][immediate # "none" => (immediate' # "none" /\ ~ProbeScheduled)]_vars
    /\ [][immediate = "done" => (immediate' = "done" /\ asyncTransport' = asyncTransport)]_vars
    /\ [][asyncTransport = "false" =>
            /\ asyncTransport' = "false"
            /\ Accepted => (Sending /\ sent'[Len(sent')].via = "sync"
                                    /\ sent'[Len(sent')].batch = <<Len(log')>>)]_vars

\* the probe has found the transport synchronous and later collects were sent
C30_Witness ==
    /\ immediate = "done"
    /\ asyncTransport = "false"
    /\ \E i \in DOMAIN sent : sent[i].via = "probe"
    /\ \E i \in DOMAIN sent : sent[i].via = "sync"

(***************************************************************************)
(* Properties of the deliveries over time.                                 *)
(***************************************************************************)

\* entry id was passed to sendEntries
Passed(id) == \E i \in DOMAIN sent : id \in Range(sent[i].batch)

\* C31: on a transport that never rejects and without an explicit flush()
\* call, every accepted entry is eventually passed to sendEntries; none stays
\* queued forever.
C31_EveryEntryEventuallySent ==
    \A id \in 1..MaxCalls : (id \in DOMAIN log) ~> Passed(id)

\* all the entries were passed, the last ones by an idle timer: no probe and
\* no timer is pending, the queue is empty
C31_Witness ==
    /\ Len(log) = MaxCalls
    /\ \A id \in DOMAIN log : Passed(id)
    /\ \A id \in DOMAIN log : log[id].lvl >= UrgentLevel
    /\ Len(sent) >= 2
    /\ timers = <<>> /\ immediate = "done" /\ Queue = <<>>

\* the explicit flush() calls that took a batch behind a rejected delivery
\* and have settled
FlushedBehindRejection ==
    {f \in DOMAIN flushes :
       /\ flushes[f].st \in {"resolved", "rejected"}
       /\ flushes[f].queued # <<>>
       /\ \E k \in DOMAIN chain : k < flushes[f].awaits /\ Failed(k)}

\* C32: a rejected delivery affects its own batch only: the entries a later
\* flush() takes are passed to sendEntries, and the flush() resolves when its
\* own batch is delivered.
C32_RejectionAffectsOwnBatchOnly ==
    \A f \in FlushedBehindRejection :
       /\ \A n \in DOMAIN flushes[f].queued : Passed(flushes[f].queued[n])
       /\ flushes[f].st = "resolved"

\* C32, as the code has it: behind a rejected delivery no batch is passed to
\* sendEntries any more, every promise chained behind it is rejected once
\* settled, and every flush() that took a batch behind it rejects.
C32_RejectionStopsThePipeline ==
    \A k \in DOMAIN chain :
       Failed(k) =>
          /\ \A i \in DOMAIN chain :
                i > k => (chain[i].st \in {"waiting", "rejected"} /\ CallsWith(i) = {})
          /\ \A f \in DOMAIN flushes :
                flushes[f].awaits > k => flushes[f].st \in {"pending", "rejected"}

\* a flush() behind a rejected delivery has rejected, its batch never sent
C32_Witness ==
    \E f \in FlushedBehindRejection :
       /\ flushes[f].st = "rejected"
       /\ CallsWith(flushes[f].awaits) = {}

\* C33: sendEntries is never called with an empty batch, whoever makes the
\* call (the probe, the synchronous-mode send, a triggered flush, the idle
\* timer, an explicit flush), also when an explicit flush() drained the queue
\* before the probe ran
C33_NoEmptyBatch ==
    \A i \in DOMAIN sent : sent[i].batch # <<>>

\* the calls of sendEntries made by anything but the probe
C33_OnlyTheProbeSendsEmpty ==
    \A i \in DOMAIN sent : sent[i].via # "probe" => sent[i].batch # <<>>

\* C34: logging quiesces after a delivery failure: the fatal entry the
\* unhandledRejection handler logs through the same logger causes no further
\* unhandled rejection (no promise made for the handler's entry is rejected
\* with nothing reacting to it)
C34_HandlerCausesNoRejection ==
    \A i \in Unhandled : ~HandlerMade(i)

\* the batch of every entry the handler logs is chained behind the rejected
\* delivery: it is never sent, and its rejection is the next event
C34_HandlerEntriesNeverSent ==
    \A i \in DOMAIN chain :
        HandlerMade(i) => chain[i].st \in {"waiting", "rejected"} /\ CallsWith(i) = {}

\* the BEGIN lines of the invocation
Begins == {x \in DOMAIN log : log[x].message = Begin(inv.kind)}

\* the wrapper has ended an invocation that was not shallow
EndedInvocation == inv.pc = "done" /\ inv.handler # "pending"

\* C35: every non-shallow invocation logs exactly one BEGIN line, first, and
\* exactly one END line, last among the wrapper's lines: debug or warning when
\* the handler returned, error when it threw, also when a success callback or
\* the response post-processing throws after the handler returned
C35_OneBeginFirstOneEndLast ==
    EndedInvocation =>
        /\ Begins = {1}
        /\ log[1].level = "trace"
        /\ Ends = {Len(log)}
        /\ ~inv.failed => log[Len(log)].level \in {"debug", "warning"}
        /\ inv.handler = "threw" => log[Len(log)].level = "error"

\* what holds of every invocation that is not shallow: one BEGIN line, the
\* first line of the wrapper, at trace level
C35_OneBeginFirst ==
    (inv.kind # "none" /\ (inv.pc = "done" => inv.handler # "pending")) =>
        Begins = {1} /\ log[1].level = "trace"

\* the hard timeout has happened: its line is logged or the outer signal is
\* aborted
Aborting == ErrorLines("Aborting flush.") # {} \/ ctx.outer

\* the soft timeout has happened, and its line is before every line of the
\* hard timeout
TimedOutEarlier ==
    /\ ctx.soft = "fired"
    /\ TimedOut
    /\ \A x \in ErrorLines("Timeout.") : \A y \in ErrorLines("Aborting flush.") : x < y

\* C36: the hard timeout never comes first: an "Aborting flush." line is
\* logged and the outer signal is aborted by the coordinator only in
\* invocations where the "Timeout." line was logged and the inner signal was
\* aborted earlier
C36_HardTimeoutNeverFirst ==
    Aborting => TimedOutEarlier

\* C36 (amended): the hard timeout happens only after the soft timeout has
\* happened ("Timeout." logged and the inner signal aborted earlier), or
\* after the context's flush() has cleared the soft timer (then there is no
\* "Timeout." line and the inner signal is not aborted); in the second case
\* the hard timer's callback runs only while the final logger.flush() has
\* not resolved: it is pending or it was rejected
C36_HardTimeoutAfterSoftOrFlush ==
    /\ [](Aborting =>
            /\ ctx.hard = "fired"
            /\ \/ TimedOutEarlier
               \/ /\ ctx.soft = "cleared"
                  /\ ctx.done # "idle"
                  /\ ErrorLines("Timeout.") = {}
                  /\ ~ctx.inner)
    /\ [][ctx.hard # ctx'.hard =>
            \/ ctx.soft = "fired"
            \/ ctx.done \in {"awaiting", "rejected"}]_vars

\* C36 witness: flush() was called before the soft deadline and its delivery
\* is still in flight past the hard deadline: the hard timer has fired and
\* aborted the outer signal, the soft timeout never happened
C36_Witness ==
    /\ ctx.hard = "fired"
    /\ ctx.outer
    /\ Cardinality(ErrorLines("Aborting flush.")) = 1
    /\ ctx.soft = "cleared"
    /\ ctx.done = "awaiting"
    /\ flushes[ctx.flush].st = "pending"
    /\ ErrorLines("Timeout.") = {}
    /\ ~ctx.inner

(***************************************************************************)
(* Properties of the response enrichment.                                  *)
(***************************************************************************)

\* the lines logged with a response enrichment that holds a body
WithResponseBody ==
    {n \in DOMAIN log : "response" \in DOMAIN log[n].json /\ log[n].json["response"] # "r"}

\* C37: when the handler's configuration sets excludeBodyFromLogs, no logged
\* line of the invocation contains a response body, on the success path and
\* equally when the response is built from a thrown value that carries a body
C37_ExcludedResponseBodyNeverLogged ==
    inv.exclude => WithResponseBody = {}

\* C37, for the invocations in which nothing was thrown
C37_ExcludedResultBodyNeverLogged ==
    (inv.exclude /\ ~inv.failed) => WithResponseBody = {}

(***************************************************************************)
(* Properties of the timer enrichment.                                     *)
(***************************************************************************)

\* line n carries the handler metadata and a trigger descriptor
Tagged(n) == {"meta", "trigger"} \subseteq DOMAIN log[n].json /\ log[n].json["meta"] = "p"

\* C38: every line logged by a timer invocation (BEGIN, measurement, END)
\* carries the timer's trigger time in its reserved enrichment, equal to the
\* triggerTime the wrapper was called with, together with the handler
\* metadata
C38_TimerLinesCarryTriggerTime ==
    inv.kind = "timer" =>
        \A n \in DOMAIN log :
            /\ Tagged(n)
            /\ log[n].json["trigger"] \in {TriggerLogged(time) : time \in TriggerTimes}

\* what the lines of a timer invocation carry: the handler metadata and a
\* trigger descriptor without a time
C38_TimerLinesCarryNoTime ==
    inv.kind = "timer" =>
        \A n \in DOMAIN log : Tagged(n) /\ log[n].json["trigger"] = "{}"

(***************************************************************************)
(* Properties of the shallow requests.                                     *)
(***************************************************************************)

\* the request of the invocation is shallow: SHALLOW_KEY is set in the
\* environment and the x-shallow header equals it
ShallowRequest == inv.kind = "http" /\ inv.key # "" /\ inv.xShallow = inv.key

\* the lines with this message
Lines(message) == {n \in DOMAIN log : log[n].message = message}

\* C39: a shallow request returns status 204 with empty headers without
\* invoking the handler or the success callbacks and logs only a "Shallow
\* request" trace line; when SHALLOW_KEY is unset or the header differs, the
\* handler is invoked exactly once
C39_ShallowRequestSkipsHandler ==
    /\ ShallowRequest =>
          /\ inv.pc = "done"
          /\ inv.outcome = "resolved"
          /\ inv.response = Some(Response(JsNumber(204), EmptyObj, Undefined))
          /\ inv.handler = "pending"
          /\ inv.ran = 0
          /\ Len(log) = 1
          /\ log[1].message = "Shallow request"
          /\ log[1].level = "trace"
    /\ (inv.kind = "http" /\ ~ShallowRequest) =>
          /\ inv.pc \in {"running", "success", "done"}
          /\ inv.pc # "running" => inv.handler # "pending"
          /\ Cardinality(Measurements) = (IF inv.handler = "pending" THEN 0 ELSE 1)
          /\ Lines("Shallow request") = {}
          /\ Lines("Request BEGIN") = {1}

\* C39 witness: a request whose x-shallow header is the SHALLOW_KEY was
\* answered with 204 while the handler was never called
C39_Witness ==
    /\ ShallowRequest
    /\ inv.key = "k"
    /\ inv.pc = "done"
    /\ inv.handler = "pending"
    /\ inv.response # Undefined
    /\ inv.response[1].status = JsNumber(204)
    /\ Lines("Shallow request") = {1}

====
